---- MODULE Spec2Model ----
(***************************************************************************)
(* Model of the ASHRAE load calculator (backend/ashrae_engine).            *)
(*                                                                         *)
(* The calculator is a pure function of a building snapshot.  The state    *)
(* machine builds a snapshot (AddSpace, AddZone, AddSystem, AddPlant) and  *)
(* then runs calculate_project on it as one step.                          *)
(*                                                                         *)
(* Numbers are fixed point, one unit per quantity:                         *)
(*   temperatures          centi-degC                                      *)
(*   loads                 cW  (0.01 W)                                    *)
(*   sized zone loads      1e-4 W   (a cW load times a factor in 1/100)    *)
(*   air flows             1e-5 m3/s                                       *)
(*   schedule values       tenths                                          *)
(*   efficiencies, COP     1/100                                           *)
(* The Python code computes in binary floating point; every product and    *)
(* quotient below is taken in the order the code takes it.                 *)
(***************************************************************************)
EXTENDS Integers, Sequences, FiniteSets, TLC

\* Bounds of the model: the longest lists of a building snapshot.
MaxSpaces == 2
MaxZones == 2

\* calculator.py: for hour in range(24)
NumHours == 24
Hours == 1..NumHours           \* position p stands for hour p-1

Max2(a, b) == IF a >= b THEN a ELSE b
Min2(a, b) == IF a <= b THEN a ELSE b
Abs(a) == IF a >= 0 THEN a ELSE -a

RECURSIVE SumSeq(_)
\* Python sum() over a list.
SumSeq(s) == IF s = <<>> THEN 0 ELSE Head(s) + SumSeq(Tail(s))

RECURSIVE MaxSeq(_)
\* Python max() over a non-empty list.
MaxSeq(s) == IF Len(s) = 1 THEN s[1] ELSE Max2(Head(s), MaxSeq(Tail(s)))

\* list.index(v): first position holding v.
IndexOf(s, v) == CHOOSE i \in 1..Len(s) : s[i] = v /\ \A j \in 1..(i-1) : s[j] # v

\* [f(x) for x in s]
MapSeq(s, F(_)) == [i \in 1..Len(s) |-> F(s[i])]

\* math.ceil(a / b) for a >= 0, b > 0.
CeilDiv(a, b) == (a + b - 1) \div b

(***************************************************************************)
(* Settings and physical constants.                                        *)
(***************************************************************************)
IndoorCoolingTemp == 2400      \* CalculationSettings.indoor_cooling_temp 24.0
IndoorHeatingTemp == 2100      \* CalculationSettings.indoor_heating_temp 21.0
CoolingSupplyAirTemp == 1300   \* CalculationSettings.cooling_supply_air_temp 13.0
HeatingSupplyAirTemp == 3500   \* CalculationSettings.heating_supply_air_temp 35.0
SystemOutdoorTemp == 3500      \* _calculate_system_loads: outdoor_temp = 35.0
HeatingDryBulb == -1500        \* heating design day dry_bulb_max -15.0, range 0
DailyRange == 11               \* cooling design day daily_range 11.0 (degC)
RhoCpAir == 12072              \* RHO_AIR * CP_AIR = 1207.2, in 1/10

\* Python None for an optional object, and for an optional identifier.
None == [none |-> TRUE]
NoId == "None"

\* _get_design_day_temp: ASHRAE clear-day profile multipliers, in 1/100.
TempProfile ==
    << 88, 92, 95, 98, 100, 98,
       91, 74, 55, 38, 23, 13,
       5, 0, 0, 6, 14, 24,
       39, 50, 59, 68, 75, 82 >>

\* _get_typical_schedule_value: typical office schedule, in tenths.
TypicalSchedule ==
    << 0, 0, 0, 0, 0, 0,
       1, 5, 9, 10, 10, 9,
       5, 9, 10, 10, 10, 5,
       2, 1, 0, 0, 0, 0 >>

\* math.cos(math.radians(15 * k)) in 1/1000, k = |hour - 12| in 0..6.
CosHourAngle == << 1000, 966, 866, 707, 500, 259, 0 >>

\* math.sin(math.radians(90 - 0.7 * 15 * k)) in 1/1000, k in 0..6.
SinAltitude == << 1000, 983, 934, 853, 743, 609, 454 >>

\* _get_default_internal_loads: W/m2 in 1/10.
DefaultInternalLoads(space_type) ==
    CASE space_type = "office_enclosed" ->
           [people_sensible |-> 50, people_latent |-> 35, lighting |-> 100, equipment |-> 100]
      [] space_type = "office_open_plan" ->
           [people_sensible |-> 60, people_latent |-> 40, lighting |-> 120, equipment |-> 120]
      [] space_type = "conference_room" ->
           [people_sensible |-> 250, people_latent |-> 180, lighting |-> 150, equipment |-> 50]
      [] space_type = "lobby" ->
           [people_sensible |-> 30, people_latent |-> 20, lighting |-> 100, equipment |-> 20]
      [] space_type = "corridor" ->
           [people_sensible |-> 10, people_latent |-> 7, lighting |-> 50, equipment |-> 0]
      [] space_type = "storage" ->
           [people_sensible |-> 5, people_latent |-> 3, lighting |-> 50, equipment |-> 0]
      [] OTHER ->
           [people_sensible |-> 50, people_latent |-> 35, lighting |-> 100, equipment |-> 100]

(***************************************************************************)
(* Input data: the kinds of space a snapshot is built from.                *)
(***************************************************************************)
\* Schedule.weekday_values of the one schedule in building.schedules ("am"):
\* occupied in the morning only.
MorningSchedule ==
    << 0, 0, 0, 0, 0, 0,
       5, 10, 10, 10, 5, 0,
       0, 0, 0, 0, 0, 0,
       0, 0, 0, 0, 0, 0 >>

BuildingSchedules == [am |-> MorningSchedule]

\* The id of a Space before the snapshot names it.
NoSpaceId == <<"space", 0>>

\* Glazing(): u_value 2.8, shgc 0.7, frame_u_value 3.5, frame_fraction 0.15
DefaultGlazing == [u_value |-> 2800, shgc |-> 70, frame_u_value |-> 3500, frame_fraction |-> 15]

\* An enclosed office with a south wall and a window and no load objects:
\* every internal gain, infiltration and outdoor air come from the defaults.
OfficeSpace ==
    [ id |-> NoSpaceId, space_type |-> "office_enclosed", floor_area |-> 10, volume |-> 30, multiplier |-> 1,
      surfaces |-> << [surface_type |-> "exterior_wall", area |-> 9, azimuth |-> 180,
                       tilt |-> 90, construction |-> None] >>,
      fenestrations |-> << [area |-> 2, glazing |-> None] >>,
      internal_load |-> None, infiltration |-> None, ventilation |-> None ]

\* A meeting room used in the morning, with its own InternalLoad, Infiltration
\* and Ventilation objects and a roof.
MorningSpace ==
    [ id |-> NoSpaceId, space_type |-> "conference_room", floor_area |-> 12, volume |-> 36, multiplier |-> 1,
      surfaces |-> << [surface_type |-> "roof", area |-> 12, azimuth |-> 0,
                       tilt |-> 0, construction |-> [u_value |-> 300]] >>,
      fenestrations |-> << >>,
      internal_load |-> [ people_count |-> 400, people_per_area |-> 0,
                          activity_level |-> 120, sensible_fraction |-> 60,
                          people_schedule_id |-> "am",
                          lighting_power_density |-> 100, lighting_schedule_id |-> "am",
                          equipment_power_density |-> 100, equipment_latent_fraction |-> 10,
                          equipment_schedule_id |-> "am" ],
      infiltration |-> [method |-> "air_changes", air_changes_per_hour |-> 50,
                        flow_per_zone |-> 0],
      ventilation |-> [total_outdoor_air |-> 10000, outdoor_air_per_person |-> 250,
                       outdoor_air_per_area |-> 30] ]

SpaceKinds == {OfficeSpace, MorningSpace}

\* The office, standing for two identical rooms (Space.multiplier = 2).
RepeatedSpace == [OfficeSpace EXCEPT !.multiplier = 2]

\* The meeting room as run_calculation builds it from a space record whose
\* equipment_power_density is -5 W/m2 (SpaceData takes any float).
CreditedSpace == [MorningSpace EXCEPT !.internal_load.equipment_power_density = -50]

\* Every kind of space a snapshot may hold.
AllSpaceKinds == SpaceKinds \cup {RepeatedSpace, CreditedSpace}

\* Building.weather_data cooling design day dry_bulb_max (run_calculation takes
\* it from the project's design conditions).
CoolingDryBulbs == {3500, 2800}

(***************************************************************************)
(* Helper methods of the calculator.                                       *)
(***************************************************************************)
\* _get_design_day_temp
GetDesignDayTemp(dry_bulb_max, daily_range, p) ==
    dry_bulb_max - TempProfile[p] * daily_range

\* _get_schedule_value
GetScheduleValue(schedule_id, p) ==
    IF schedule_id = NoId \/ schedule_id \notin DOMAIN BuildingSchedules
    THEN TypicalSchedule[p]
    ELSE BuildingSchedules[schedule_id][p]

\* Glazing.assembly_u_value
AssemblyUValue(g) ==
    (g.u_value * (100 - g.frame_fraction) + g.frame_u_value * g.frame_fraction) \div 100

\* _get_solar_intensity, in 1/10 W/m2 (clearness 1.0)
GetSolarIntensity(p) ==
    LET hour == p - 1 IN
    IF hour < 6 \/ hour > 18 THEN 0
    ELSE Max2(0, (8000 * CosHourAngle[Abs(hour - 12) + 1]) \div 1000)

\* _get_solar_on_surface, in 1/10 W/m2
GetSolarOnSurface(p, surface) ==
    LET hour == p - 1
        k == Abs(hour - 12)
        dni == (8000 * CosHourAngle[k + 1]) \div 1000
        sun_azimuth == 180 + (hour - 12) * 15
        diff0 == Abs(surface.azimuth - sun_azimuth)
        angle_diff == IF diff0 > 180 THEN 360 - diff0 ELSE diff0
        factor == IF surface.tilt = 0 THEN SinAltitude[k + 1]
                  ELSE IF surface.tilt = 90
                       THEN (IF angle_diff > 90 THEN 100
                             ELSE (CosHourAngle[(angle_diff \div 15) + 1] * 7) \div 10)
                       ELSE 500
    IN IF hour < 6 \/ hour > 18 THEN 0
       ELSE Max2(0, (dni * factor) \div 1000)

\* _calculate_sol_air_temp
CalculateSolAirTemp(outdoor_temp, surface, p) ==
    LET alpha == IF surface.surface_type = "roof" THEN 70 ELSE 60
        solar == GetSolarOnSurface(p, surface)
        delta_r == IF surface.tilt < 45 THEN 400 ELSE 0
    IN outdoor_temp + ((alpha * solar) \div 227) - delta_r

\* flow * RHO_AIR * CP_AIR * delta_t, in cW
AirSensibleLoad(flow, delta_t) == (((flow * RhoCpAir) \div 10000) * delta_t) \div 100

\* flow * RHO_AIR * 2500 * 0.005, in cW
AirLatentLoad(flow) == (flow * 15) \div 1000

\* _calculate_outdoor_air
CalculateOutdoorAir(space, ventilation) ==
    IF ventilation.total_outdoor_air > 0 THEN ventilation.total_outdoor_air
    ELSE LET il == space.internal_load
             people == IF il # None /\ il.people_count > 0 THEN il.people_count
                       ELSE IF il # None /\ il.people_per_area > 0
                            THEN il.people_per_area * space.floor_area
                            ELSE space.floor_area * 10
         IN (ventilation.outdoor_air_per_person * people) \div 100
            + ventilation.outdoor_air_per_area * space.floor_area

\* Infiltration flow of a space (both branches of the method test).
InfiltrationFlow(space) ==
    IF space.infiltration # None
    THEN IF space.infiltration.method = "air_changes"
         THEN (space.infiltration.air_changes_per_hour * space.volume * 10) \div 36
         ELSE space.infiltration.flow_per_zone
    ELSE (30 * space.volume * 10) \div 36

\* Variant of CalculateSupplyAirflow returning the mass flow as the volume flow.
CalculateSupplyAirflowMassFlow(sensible_load, supply_temp, room_temp) ==
    LET d == Abs(room_temp - supply_temp)
        delta_t == IF d < 100 THEN 100 ELSE d
    IN (sensible_load * 1000) \div ((1006 * delta_t) \div 100)

\* _calculate_supply_airflow
CalculateSupplyAirflow(sensible_load, supply_temp, room_temp) ==
    LET d == Abs(room_temp - supply_temp)
        delta_t == IF d < 100 THEN 100 ELSE d
        mass_flow == (sensible_load * 1000) \div ((1006 * delta_t) \div 100)
    IN (mass_flow * 10) \div 12

(***************************************************************************)
(* Space loads.                                                            *)
(***************************************************************************)
\* LoadComponent(...): __post_init__ fills total_cooling when it is 0.
LoadComponent(key, sensible, latent) ==
    [ key |-> key, sensible_cooling |-> sensible, latent_cooling |-> latent,
      total_cooling |-> sensible + latent ]

\* u * area * delta_t, in cW (u in 1/1000 W/m2K)
Conduction(u, area, delta_t) == (u * area * delta_t) \div 1000

SurfaceUValue(surface, default) ==
    IF surface.construction # None THEN surface.construction.u_value ELSE default

\* _calculate_hourly_loads, 1: envelope conduction
EnvelopeSensible(space, outdoor_temp, p, indoor_temp) ==
    LET q(surface) ==
            IF surface.surface_type \in {"exterior_wall", "roof"}
            THEN Max2(0, Conduction(SurfaceUValue(surface, 500), surface.area,
                                    CalculateSolAirTemp(outdoor_temp, surface, p) - indoor_temp))
            ELSE 0
    IN SumSeq(MapSeq(space.surfaces, q))

\* _calculate_hourly_loads, 2: window solar and conduction (before the clamp)
WindowSolar(space, p) ==
    LET g(fen) == IF fen.glazing # None THEN fen.glazing ELSE DefaultGlazing
        q(fen) == (g(fen).shgc * fen.area * GetSolarIntensity(p)) \div 20
    IN SumSeq(MapSeq(space.fenestrations, q))

WindowConduction(space, outdoor_temp, indoor_temp) ==
    LET g(fen) == IF fen.glazing # None THEN fen.glazing ELSE DefaultGlazing
        q(fen) == Conduction(AssemblyUValue(g(fen)), fen.area, outdoor_temp - indoor_temp)
    IN SumSeq(MapSeq(space.fenestrations, q))

\* _calculate_hourly_loads, 3: people, lighting, equipment
InternalComponents(space, p) ==
    IF space.internal_load # None
    THEN LET load == space.internal_load
             schedule_value == GetScheduleValue(load.people_schedule_id, p)
             num_people == IF load.people_count > 0 THEN load.people_count
                           ELSE load.people_per_area * space.floor_area
             people_sensible ==
                 (num_people * load.activity_level * load.sensible_fraction * schedule_value)
                     \div 1000
             people_latent ==
                 (num_people * load.activity_level * (100 - load.sensible_fraction)
                     * schedule_value) \div 1000
             lighting_power == load.lighting_power_density * space.floor_area
                                   * GetScheduleValue(load.lighting_schedule_id, p)
             equip_power == load.equipment_power_density * space.floor_area
                                * GetScheduleValue(load.equipment_schedule_id, p)
             equip_latent == (equip_power * load.equipment_latent_fraction) \div 100
         IN << LoadComponent("people", people_sensible, people_latent),
               LoadComponent("lighting", lighting_power, 0),
               LoadComponent("equipment", equip_power - equip_latent, equip_latent) >>
    ELSE LET d == DefaultInternalLoads(space.space_type)
             schedule_value == TypicalSchedule[p]
         IN << LoadComponent("people", d.people_sensible * space.floor_area * schedule_value,
                                       d.people_latent * space.floor_area * schedule_value),
               LoadComponent("lighting", d.lighting * space.floor_area * schedule_value, 0),
               LoadComponent("equipment", d.equipment * space.floor_area * schedule_value, 0) >>

\* _calculate_hourly_loads, 4: infiltration (include_infiltration is True)
InfiltrationComponent(space, outdoor_temp, indoor_temp) ==
    LET inf_sensible == AirSensibleLoad(InfiltrationFlow(space), outdoor_temp - indoor_temp)
    IN IF space.infiltration # None
       THEN LoadComponent("infiltration", Max2(0, inf_sensible),
                          Max2(0, AirLatentLoad(InfiltrationFlow(space))))
       ELSE LoadComponent("infiltration", Max2(0, inf_sensible),
                          Max2(0, (inf_sensible * 3) \div 10))

\* _calculate_hourly_loads, 5: ventilation (include_ventilation is True); the
\* key is added only when the space has a Ventilation object.
VentilationComponents(space, outdoor_temp, indoor_temp) ==
    IF space.ventilation # None
    THEN LET vent_flow == CalculateOutdoorAir(space, space.ventilation)
         IN << LoadComponent("ventilation",
                             Max2(0, AirSensibleLoad(vent_flow, outdoor_temp - indoor_temp)),
                             Max2(0, AirLatentLoad(vent_flow))) >>
    ELSE << >>

\* _calculate_hourly_loads(space, building, outdoor_temp, hour, dd, is_cooling=True):
\* the component map, in insertion order.
CalculateHourlyLoads(space, outdoor_temp, p) ==
    LET indoor_temp == IndoorCoolingTemp
    IN << LoadComponent("envelope_conduction",
                        EnvelopeSensible(space, outdoor_temp, p, indoor_temp), 0),
          LoadComponent("window_solar", Max2(0, WindowSolar(space, p)), 0),
          LoadComponent("window_conduction",
                        Max2(0, WindowConduction(space, outdoor_temp, indoor_temp)), 0) >>
       \o InternalComponents(space, p)
       \o << InfiltrationComponent(space, outdoor_temp, indoor_temp) >>
       \o VentilationComponents(space, outdoor_temp, indoor_temp)

\* _calculate_heating_load
CalculateHeatingLoad(space, outdoor_temp) ==
    LET indoor_temp == IndoorHeatingTemp
        ground_temp == 1000
        qs(surface) ==
            IF surface.surface_type \in {"exterior_wall", "roof"}
            THEN Max2(0, Conduction(SurfaceUValue(surface, 500), surface.area,
                                    indoor_temp - outdoor_temp))
            ELSE IF surface.surface_type = "slab_on_grade"
                 THEN Max2(0, Conduction(SurfaceUValue(surface, 300), surface.area,
                                         indoor_temp - ground_temp))
                 ELSE 0
        g(fen) == IF fen.glazing # None THEN fen.glazing ELSE DefaultGlazing
        qf(fen) == Max2(0, Conduction(AssemblyUValue(g(fen)), fen.area,
                                      indoor_temp - outdoor_temp))
        inf_load == AirSensibleLoad(InfiltrationFlow(space), indoor_temp - outdoor_temp)
        vent_flow == IF space.ventilation # None
                     THEN CalculateOutdoorAir(space, space.ventilation)
                     ELSE 55 * space.floor_area
        vent_load == AirSensibleLoad(vent_flow, indoor_temp - outdoor_temp)
    IN SumSeq(MapSeq(space.surfaces, qs)) + SumSeq(MapSeq(space.fenestrations, qf))
       + Max2(0, inf_load) + Max2(0, vent_load)

\* HourlyLoadProfile.peak_cooling_hour / peak_heating_hour (as a position)
PeakHour(values) == IndexOf(values, MaxSeq(values))

\* HourlyLoadProfile(): every list 24 zeros (outdoor_temp is not modelled).
EmptyProfile ==
    [ sensible_cooling |-> [p \in Hours |-> 0], latent_cooling |-> [p \in Hours |-> 0],
      total_cooling |-> [p \in Hours |-> 0], sensible_heating |-> [p \in Hours |-> 0] ]

\* Variant of SpacePeakSummary taking every peak as an independent maximum.
SpacePeakSummaryIndependentMax(sens, lat, tot, heat) ==
    [ peak_sensible_cooling |-> MaxSeq(sens),
      peak_latent_cooling |-> MaxSeq(lat),
      peak_total_cooling |-> MaxSeq(tot),
      peak_sensible_heating |-> MaxSeq(heat),
      peak_cooling_hour |-> PeakHour(tot) - 1,
      peak_heating_hour |-> PeakHour(heat) - 1 ]

\* _calculate_space_loads: "Peak summary", from the cooling profile's sensible,
\* latent and total lists and the heating profile's list.
SpacePeakSummary(sens, lat, tot, heat) ==
    [ peak_sensible_cooling |-> MaxSeq(sens),
      peak_latent_cooling |-> lat[PeakHour(tot)],
      peak_total_cooling |-> MaxSeq(tot),
      peak_sensible_heating |-> MaxSeq(heat),
      peak_cooling_hour |-> PeakHour(tot) - 1,
      peak_heating_hour |-> PeakHour(heat) - 1 ]

\* Variant of ComponentsAtPeak taking the breakdown of hour 12 (noon).
ComponentsAtNoon(space, dry_bulb_max, peak_cooling_hour) ==
    CalculateHourlyLoads(space, GetDesignDayTemp(dry_bulb_max, DailyRange, 13), 13)

\* _calculate_space_loads: "Get detailed components at peak hour"
\* (peak_cooling_hour as a position)
ComponentsAtPeak(space, dry_bulb_max, peak_cooling_hour) ==
    CalculateHourlyLoads(space,
                         GetDesignDayTemp(dry_bulb_max, DailyRange, peak_cooling_hour),
                         peak_cooling_hour)

\* _calculate_space_loads(space, building), for the building's cooling design
\* day dry_bulb_max.
CalculateSpaceLoads(space, dry_bulb_max) ==
    LET outdoor(p) == GetDesignDayTemp(dry_bulb_max, DailyRange, p)
        comps(p) == CalculateHourlyLoads(space, outdoor(p), p)
        sens == [p \in Hours |->
                    SumSeq(MapSeq(comps(p), LAMBDA c : c.sensible_cooling))]
        lat == [p \in Hours |->
                    SumSeq(MapSeq(comps(p), LAMBDA c : c.latent_cooling))]
        tot == [p \in Hours |-> sens[p] + lat[p]]
        heat == [p \in Hours |->
                    CalculateHeatingLoad(space, GetDesignDayTemp(HeatingDryBulb, 0, p))]
        peak_cooling_hour == PeakHour(tot)
        peak == SpacePeakSummary(sens, lat, tot, heat)
    IN [ space_id |-> space.id,
         floor_area |-> space.floor_area,
         volume |-> space.volume,
         \* of each profile, the lists _calculate_space_loads fills
         cooling_design_day_profile |->
             [sensible_cooling |-> sens, latent_cooling |-> lat, total_cooling |-> tot],
         heating_design_day_profile |-> [sensible_heating |-> heat],
         components |-> ComponentsAtPeak(space, dry_bulb_max, peak_cooling_hour),
         peak_summary |-> peak,
         supply_airflow_cooling |->
             CalculateSupplyAirflow(peak.peak_sensible_cooling, CoolingSupplyAirTemp,
                                    IndoorCoolingTemp),
         supply_airflow_heating |->
             CalculateSupplyAirflow(peak.peak_sensible_heating, HeatingSupplyAirTemp,
                                    IndoorHeatingTemp),
         outdoor_airflow |->
             IF space.ventilation # None
             THEN CalculateOutdoorAir(space, space.ventilation)
             ELSE 55 * space.floor_area ]

(***************************************************************************)
(* Identifiers.  Spaces, zones, systems and plants of a snapshot are named *)
(* by their position; the calculator's own names are kept apart.           *)
(***************************************************************************)
SpaceId(i) == <<"space", i>>
ZoneId(i) == <<"zone", i>>
SystemId(i) == <<"sys", i>>
PlantId(i) == <<"plant", i>>
\* f"zone-{space_result.space_id}"
SyntheticZoneId(space_id) == <<"zone-", space_id[2]>>
DefaultSystemId == <<"sys-default", 0>>
DefaultPlantId == <<"plant-default", 0>>

(***************************************************************************)
(* Zone roll-up.                                                           *)
(***************************************************************************)
\* sum(f(x) for x in xs)
SumOver(xs, F(_)) == SumSeq(MapSeq(xs, F))

\* _calculate_zone_loads: the coincident peak, "simplified: assume all peak at
\* same hour": the sum of the member spaces' peaks.
ZonePeakSummary(space_results) ==
    [ peak_total_cooling |-> SumOver(space_results, LAMBDA sr : sr.peak_summary.peak_total_cooling),
      peak_sensible_cooling |->
          SumOver(space_results, LAMBDA sr : sr.peak_summary.peak_sensible_cooling),
      peak_latent_cooling |->
          SumOver(space_results, LAMBDA sr : sr.peak_summary.peak_latent_cooling),
      peak_sensible_heating |->
          SumOver(space_results, LAMBDA sr : sr.peak_summary.peak_sensible_heating),
      peak_cooling_hour |-> 15,
      peak_heating_hour |-> 7 ]

\* Variant of ZoneHourlyProfile leaving the new HourlyLoadProfile unfilled.
ZoneHourlyProfileUnfilled(space_results) == EmptyProfile

\* _calculate_zone_loads: combine hourly profiles
ZoneHourlyProfile(space_results) ==
    [ sensible_cooling |-> [p \in Hours |->
          SumOver(space_results, LAMBDA sr : sr.cooling_design_day_profile.sensible_cooling[p])],
      latent_cooling |-> [p \in Hours |->
          SumOver(space_results, LAMBDA sr : sr.cooling_design_day_profile.latent_cooling[p])],
      total_cooling |-> [p \in Hours |->
          SumOver(space_results, LAMBDA sr : sr.cooling_design_day_profile.total_cooling[p])],
      sensible_heating |-> [p \in Hours |->
          SumOver(space_results, LAMBDA sr : sr.heating_design_day_profile.sensible_heating[p])] ]

\* _calculate_zone_loads(zone, space_results).  The result's space_results are
\* the member results themselves; the model keeps their space ids, in order.
CalculateZoneLoads(zone, space_results) ==
    LET peak == ZonePeakSummary(space_results)
    IN [ zone_id |-> zone.id,
         space_ids |-> zone.space_ids,
         space_results |-> MapSeq(space_results, LAMBDA sr : sr.space_id),
         total_floor_area |-> SumOver(space_results, LAMBDA sr : sr.floor_area),
         total_volume |-> SumOver(space_results, LAMBDA sr : sr.volume),
         zone_supply_airflow |-> SumOver(space_results, LAMBDA sr : sr.supply_airflow_cooling),
         zone_outdoor_airflow |-> SumOver(space_results, LAMBDA sr : sr.outdoor_airflow),
         peak_summary |-> peak,
         sized_cooling_load |-> peak.peak_total_cooling * zone.cooling_sizing_factor,
         sized_heating_load |-> peak.peak_sensible_heating * zone.heating_sizing_factor,
         hourly_profile |-> ZoneHourlyProfile(space_results) ]

\* Variant of SyntheticZone sizing with the system factor 1.1 for both loads.
SyntheticZoneSystemFactor(space_result) ==
    [ zone_id |-> SyntheticZoneId(space_result.space_id),
      space_ids |-> {space_result.space_id},
      space_results |-> << space_result.space_id >>,
      total_floor_area |-> space_result.floor_area,
      total_volume |-> space_result.volume,
      zone_supply_airflow |-> space_result.supply_airflow_cooling,
      zone_outdoor_airflow |-> space_result.outdoor_airflow,
      peak_summary |-> space_result.peak_summary,
      sized_cooling_load |-> space_result.peak_summary.peak_total_cooling * 110,
      sized_heating_load |-> space_result.peak_summary.peak_sensible_heating * 110,
      hourly_profile |-> EmptyProfile ]

\* calculate_project: "If no zones defined, create a default zone per space".
\* hourly_profile is not passed to ZoneLoadResult and keeps its default.
SyntheticZone(space_result) ==
    [ zone_id |-> SyntheticZoneId(space_result.space_id),
      space_ids |-> {space_result.space_id},
      space_results |-> << space_result.space_id >>,
      total_floor_area |-> space_result.floor_area,
      total_volume |-> space_result.volume,
      zone_supply_airflow |-> space_result.supply_airflow_cooling,
      zone_outdoor_airflow |-> space_result.outdoor_airflow,
      peak_summary |-> space_result.peak_summary,
      sized_cooling_load |-> space_result.peak_summary.peak_total_cooling * 115,
      sized_heating_load |-> space_result.peak_summary.peak_sensible_heating * 125,
      hourly_profile |-> EmptyProfile ]

(***************************************************************************)
(* System roll-up.                                                         *)
(***************************************************************************)
\* _calculate_mixed_air_temp: the clamped outdoor-air fraction, in 1/1000
OutdoorAirFraction(total_flow, outdoor_flow) ==
    Min2(1000, Max2(0, (outdoor_flow * 1000) \div total_flow))

\* _calculate_mixed_air_temp
CalculateMixedAirTemp(total_flow, outdoor_flow, outdoor_temp, return_temp) ==
    IF total_flow <= 0 THEN return_temp
    ELSE LET oa_fraction == OutdoorAirFraction(total_flow, outdoor_flow)
         IN (oa_fraction * outdoor_temp + (1000 - oa_fraction) * return_temp) \div 1000

\* _calculate_fan_power, in cW
CalculateFanPower(flow_rate, pressure_rise, fan_efficiency, motor_efficiency) ==
    IF fan_efficiency <= 0 \/ motor_efficiency <= 0 THEN 0
    ELSE (flow_rate * pressure_rise * 10) \div (fan_efficiency * motor_efficiency)

\* _calculate_system_loads: block load (coincident): max over the hours of
\* the zones' summed hourly profiles.
HourlyTotals(zone_results, field) ==
    [p \in Hours |-> SumOver(zone_results, LAMBDA zr : zr.hourly_profile[field][p])]

\* Variant of BlockCoolingTotal: the non-coincident sum of the zone peaks.
BlockCoolingTotalNonCoincident(zone_results) ==
    SumSeq(MapSeq(zone_results, LAMBDA zr : zr.peak_summary.peak_total_cooling))

BlockCoolingTotal(zone_results) == MaxSeq(HourlyTotals(zone_results, "total_cooling"))

\* _calculate_system_loads(system, zone_results)
\* str.lower() on the system-type tags in use
Lower(tag) == CASE tag = "VAV" -> "vav" [] tag = "CAV" -> "cav" [] OTHER -> tag

\* Variant of ReheatCoilLoad estimating reheat for every system type.
ReheatCoilLoadAnyType(system, block_cooling_sensible) ==
    (block_cooling_sensible * 2) \div 10

\* _calculate_system_loads: "Reheat (for VAV systems)"; 0.0 unless assigned
ReheatCoilLoad(system, block_cooling_sensible) ==
    IF Lower(system.system_type) = "vav" THEN (block_cooling_sensible * 2) \div 10 ELSE 0

CalculateSystemLoads(system, zone_results) ==
    LET total_supply_airflow == SumOver(zone_results, LAMBDA zr : zr.zone_supply_airflow)
        total_outdoor_airflow == SumOver(zone_results, LAMBDA zr : zr.zone_outdoor_airflow)
        sum_zone_cooling == SumOver(zone_results, LAMBDA zr : zr.sized_cooling_load)
        sum_zone_heating == SumOver(zone_results, LAMBDA zr : zr.sized_heating_load)
        hourly_totals_cooling == HourlyTotals(zone_results, "total_cooling")
        hourly_totals_heating == HourlyTotals(zone_results, "sensible_heating")
        block_cooling_total == BlockCoolingTotal(zone_results)
        block_heating == MaxSeq(hourly_totals_heating)
        total_sensible == SumOver(zone_results, LAMBDA zr : zr.peak_summary.peak_sensible_cooling)
        total_latent == SumOver(zone_results, LAMBDA zr : zr.peak_summary.peak_latent_cooling)
        ratio == IF total_sensible + total_latent > 0
                 THEN (total_sensible * 1000) \div (total_sensible + total_latent)
                 ELSE 750
        block_cooling_sensible ==
            IF block_cooling_total > 0 THEN (block_cooling_total * ratio) \div 1000 ELSE 0
        block_cooling_latent ==
            IF block_cooling_total > 0 THEN (block_cooling_total * (1000 - ratio)) \div 1000
            ELSE 0
        mixed_air_temp == CalculateMixedAirTemp(total_supply_airflow, total_outdoor_airflow,
                                                SystemOutdoorTemp, IndoorCoolingTemp)
        cooling_coil_sensible ==
            AirSensibleLoad(total_supply_airflow, mixed_air_temp - system.cooling_supply_air_temp)
        cooling_coil_latent == (block_cooling_latent * 12) \div 10
    IN [ system_id |-> system.id,
         system_type |-> system.system_type,
         zone_ids |-> system.zone_ids,
         zone_results |-> MapSeq(zone_results, LAMBDA zr : zr.zone_id),
         total_floor_area |-> SumOver(zone_results, LAMBDA zr : zr.total_floor_area),
         total_supply_airflow |-> total_supply_airflow,
         total_outdoor_airflow |-> total_outdoor_airflow,
         sum_zone_cooling |-> sum_zone_cooling,
         sum_zone_heating |-> sum_zone_heating,
         block_cooling_total |-> block_cooling_total,
         block_heating |-> block_heating,
         \* 1.0 by default; block / sum in 1/1000 (sum_zone_* are in 1e-4 W)
         cooling_diversity_factor |->
             IF sum_zone_cooling > 0
             THEN (block_cooling_total * 10) \div (sum_zone_cooling \div 10000) ELSE 1000,
         heating_diversity_factor |->
             IF sum_zone_heating > 0
             THEN (block_heating * 10) \div (sum_zone_heating \div 10000) ELSE 1000,
         block_cooling_sensible |-> block_cooling_sensible,
         block_cooling_latent |-> block_cooling_latent,
         sized_cooling_capacity |-> block_cooling_total * system.cooling_sizing_factor,
         sized_heating_capacity |-> block_heating * system.heating_sizing_factor,
         mixed_air_temp |-> mixed_air_temp,
         cooling_coil_sensible |-> cooling_coil_sensible,
         cooling_coil_latent |-> cooling_coil_latent,
         cooling_coil_total |-> cooling_coil_sensible + cooling_coil_latent,
         heating_coil_load |-> (block_heating * 11) \div 10,
         reheat_coil_load |-> ReheatCoilLoad(system, block_cooling_sensible),
         supply_fan_power |->
             CalculateFanPower(total_supply_airflow, system.fan_pressure_rise,
                               system.fan_efficiency, system.fan_motor_efficiency),
         hourly_profile |->
             [ sensible_cooling |-> HourlyTotals(zone_results, "sensible_cooling"),
               total_cooling |-> hourly_totals_cooling,
               sensible_heating |-> hourly_totals_heating ] ]

(***************************************************************************)
(* Plant roll-up.                                                          *)
(***************************************************************************)
\* A Python exception leaving the calculator.
Raised(exception) == [raised |-> exception]
IsRaised(v) == "raised" \in DOMAIN v

\* _calculate_pump_power, in cW (flow in mL/s, head in kPa)
CalculatePumpPower(flow_rate, head, efficiency) ==
    IF efficiency <= 0 THEN 0
    ELSE (flow_rate * head * 10) \div efficiency

\* load / (RHO_WATER * CP_WATER * delta_t) * 1000 L/s, in mL/s (delta_t in 1/10 K)
WaterFlowRate(load, delta_t) == (load * 100) \div (4186 * delta_t)

\* 500 * 3517 W and 200 * 3517 W, in cW
MaxChillerSize == 175850000
MinChillerSize == 70340000
\* 3000 kW and 500 kW, in cW
MaxBoilerSize == 300000000
MinBoilerSize == 50000000

\* Variant of NumChillersRecommended sizing by the 200-ton rule at every capacity.
NumChillersRecommendedByMinimum(chiller_capacity) ==
    Max2(1, CeilDiv(chiller_capacity, MinChillerSize))

\* _calculate_plant_loads: equipment sizing recommendations
NumChillersRecommended(chiller_capacity) ==
    IF chiller_capacity > MaxChillerSize
    THEN CeilDiv(chiller_capacity, MaxChillerSize)
    ELSE Max2(1, CeilDiv(chiller_capacity, MinChillerSize))

\* _calculate_plant_loads: chiller_size_each
ChillerSizeEach(chiller_capacity) ==
    chiller_capacity \div NumChillersRecommended(chiller_capacity)

\* Variant of NumBoilersRecommended rounding the number of boilers down.
NumBoilersRecommendedRoundedDown(boiler_capacity) ==
    IF boiler_capacity > MaxBoilerSize
    THEN boiler_capacity \div MaxBoilerSize
    ELSE Max2(1, CeilDiv(boiler_capacity, MinBoilerSize))

NumBoilersRecommended(boiler_capacity) ==
    IF boiler_capacity > MaxBoilerSize
    THEN CeilDiv(boiler_capacity, MaxBoilerSize)
    ELSE Max2(1, CeilDiv(boiler_capacity, MinBoilerSize))

\* _calculate_plant_loads: boiler_size_each
BoilerSizeEach(boiler_capacity) ==
    boiler_capacity \div NumBoilersRecommended(boiler_capacity)

\* _calculate_plant_loads(plant, system_results).  Python's float division
\* raises ZeroDivisionError on a zero divisor, whatever the dividend.
CalculatePlantLoads(plant, system_results) ==
    LET total_cooling_coil == SumOver(system_results, LAMBDA sr : sr.cooling_coil_total)
        total_heating_coil ==
            SumOver(system_results, LAMBDA sr : sr.heating_coil_load + sr.reheat_coil_load)
        total_chiller_load == (total_cooling_coil * 105) \div 100
        total_boiler_load == (total_heating_coil * 105) \div 100
        compressor_heat == (total_chiller_load * 100) \div plant.chiller_cop
        total_cooling_tower_load == total_chiller_load + compressor_heat
        chiller_capacity == (total_chiller_load * plant.cooling_sizing_factor) \div 100
        boiler_capacity == (total_boiler_load * plant.heating_sizing_factor) \div 100
        chw_flow_rate == WaterFlowRate(total_chiller_load, 55)
        hw_flow_rate == WaterFlowRate(total_boiler_load, 110)
        cw_flow_rate == WaterFlowRate(total_cooling_tower_load, 55)
    IN IF plant.chiller_cop = 0 \/ plant.boiler_efficiency = 0
       THEN Raised("ZeroDivisionError")
       ELSE
       [ plant_id |-> plant.id,
         system_ids |-> plant.system_ids,
         system_results |-> MapSeq(system_results, LAMBDA sr : sr.system_id),
         total_floor_area |-> SumOver(system_results, LAMBDA sr : sr.total_floor_area),
         total_chiller_load |-> total_chiller_load,
         total_boiler_load |-> total_boiler_load,
         total_cooling_tower_load |-> total_cooling_tower_load,
         chiller_capacity |-> chiller_capacity,
         boiler_capacity |-> boiler_capacity,
         num_chillers_recommended |-> NumChillersRecommended(chiller_capacity),
         chiller_size_each |-> ChillerSizeEach(chiller_capacity),
         num_boilers_recommended |-> NumBoilersRecommended(boiler_capacity),
         boiler_size_each |-> BoilerSizeEach(boiler_capacity),
         chw_pump_power |-> CalculatePumpPower(chw_flow_rate, plant.chw_pump_head,
                                               plant.pump_efficiency),
         hw_pump_power |-> CalculatePumpPower(hw_flow_rate, plant.hw_pump_head,
                                              plant.pump_efficiency),
         cw_pump_power |-> CalculatePumpPower(cw_flow_rate, plant.cw_pump_head,
                                              plant.pump_efficiency),
         chiller_energy_input |-> (total_chiller_load * 100) \div plant.chiller_cop,
         boiler_energy_input |-> (total_boiler_load * 100) \div plant.boiler_efficiency ]

(***************************************************************************)
(* calculate_project.                                                      *)
(***************************************************************************)
\* ProjectLoadResult not yet produced.
NoResult == [none |-> TRUE]

\* _calculate_space_loads tabulated over the kinds of space and the design
\* days of the model (the result depends on the space's id only in space_id).
SpaceLoadsTable ==
    [k \in AllSpaceKinds, d \in CoolingDryBulbs |-> CalculateSpaceLoads(k, d)]

\* calculate_project: space loads, one result per space in building order.
SpaceResults(building) ==
    [i \in 1..Len(building.spaces) |->
        [SpaceLoadsTable[[building.spaces[i] EXCEPT !.id = NoSpaceId], building.cooling_db]
            EXCEPT !.space_id = building.spaces[i].id]]

\* calculate_project: zone loads, and a default zone per space when none results.
ZoneResults(building, space_results) ==
    LET explicit ==
            MapSeq(building.zones,
                   LAMBDA zone : CalculateZoneLoads(zone,
                       SelectSeq(space_results, LAMBDA sr : sr.space_id \in zone.space_ids)))
    IN IF explicit = <<>> /\ space_results # <<>>
       THEN MapSeq(space_results, SyntheticZone)
       ELSE explicit

\* calculate_project: system loads, and a default system when none results.
SystemResults(building, zone_results) ==
    LET explicit ==
            MapSeq(building.systems,
                   LAMBDA system : CalculateSystemLoads(system,
                       SelectSeq(zone_results, LAMBDA zr : zr.zone_id \in system.zone_ids)))
        default == [ id |-> DefaultSystemId, system_type |-> "vav",
                     zone_ids |-> {zone_results[i].zone_id : i \in 1..Len(zone_results)},
                     cooling_supply_air_temp |-> 1300,
                     fan_efficiency |-> 70, fan_pressure_rise |-> 1000,
                     fan_motor_efficiency |-> 90,
                     cooling_sizing_factor |-> 110, heating_sizing_factor |-> 110 ]
    IN IF explicit = <<>> /\ zone_results # <<>>
       THEN << CalculateSystemLoads(default, zone_results) >>
       ELSE explicit

\* calculate_project: plant loads, and a default plant when none results.
PlantResults(building, system_results) ==
    LET explicit ==
            MapSeq(building.plants,
                   LAMBDA plant : CalculatePlantLoads(plant,
                       SelectSeq(system_results, LAMBDA sr : sr.system_id \in plant.system_ids)))
        default == [ id |-> DefaultPlantId,
                     system_ids |-> {system_results[i].system_id : i \in 1..Len(system_results)},
                     chiller_cop |-> 600, boiler_efficiency |-> 85, pump_efficiency |-> 70,
                     chw_pump_head |-> 150, hw_pump_head |-> 100, cw_pump_head |-> 200,
                     cooling_sizing_factor |-> 110, heating_sizing_factor |-> 110 ]
    IN IF explicit = <<>> /\ system_results # <<>>
       THEN << CalculatePlantLoads(default, system_results) >>
       ELSE explicit

\* Variant of TotalCoolingLoad summing the sensible peaks.
TotalCoolingLoadSensibleOnly(space_results) ==
    SumSeq(MapSeq(space_results, LAMBDA sr : sr.peak_summary.peak_sensible_cooling))

\* calculate_project: "Calculate building totals"
TotalCoolingLoad(space_results) ==
    SumOver(space_results, LAMBDA sr : sr.peak_summary.peak_total_cooling)

TotalHeatingLoad(space_results) ==
    SumOver(space_results, LAMBDA sr : sr.peak_summary.peak_sensible_heating)

\* calculate_project(project): the ProjectLoadResult, or the exception raised.
CalculateProject(building) ==
    LET space_results == SpaceResults(building)
        zone_results == ZoneResults(building, space_results)
        system_results == SystemResults(building, zone_results)
        plant_results == PlantResults(building, system_results)
    IN IF \E i \in 1..Len(plant_results) : IsRaised(plant_results[i])
       THEN Raised("ZeroDivisionError")
       ELSE
       [ space_results |-> space_results,
         zone_results |-> zone_results,
         system_results |-> system_results,
         plant_results |-> plant_results,
         num_spaces |-> Len(building.spaces),
         num_zones |-> Len(building.zones),
         num_systems |-> Len(building.systems),
         total_floor_area |->
             SumOver(building.spaces, LAMBDA sp : sp.floor_area * sp.multiplier),
         total_volume |-> SumOver(building.spaces, LAMBDA sp : sp.volume * sp.multiplier),
         total_cooling_load |-> TotalCoolingLoad(space_results),
         total_heating_load |-> TotalHeatingLoad(space_results) ]

(***************************************************************************)
(* The state machine: a building snapshot is put together, then calculated.*)
(***************************************************************************)
VARIABLES building, result,              \* calculate_project: input and output
          chiller_capacity, chiller_sizing, \* plant equipment sizing: chillers
          boiler_capacity, boiler_sizing,   \* plant equipment sizing: boilers
          project, runs,                    \* repeated calculate_project runs
          spotted, extractions,             \* GeometryExtractor: image and results
          writer_spaces, gbxml,             \* GbXMLWriter: spaces and document
          stored, reply, utc_now,           \* calculation service: project, response, time
          change_requests, scope_items, answers \* scopestack: change requests

vars == <<building, result, chiller_capacity, chiller_sizing,
          boiler_capacity, boiler_sizing, project, runs,
          spotted, extractions, writer_spaces, gbxml,
          stored, reply, utc_now, change_requests, scope_items, answers>>

calculatorVars == <<building, result>>
sizingVars == <<chiller_capacity, chiller_sizing, boiler_capacity, boiler_sizing>>
rerunVars == <<project, runs>>
extractorVars == <<spotted, extractions>>
writerVars == <<writer_spaces, gbxml>>
serviceVars == <<stored, reply, utc_now>>
scopeVars == <<change_requests, scope_items, answers>>

\* The objects a behaviour does not exercise stay as constructed.
SizingIdle ==
    /\ chiller_capacity = 0 /\ chiller_sizing = None
    /\ boiler_capacity = 0 /\ boiler_sizing = None
RerunIdle == project = None /\ runs = <<>>
ExtractorIdle == spotted = <<>> /\ extractions = <<>>
WriterIdle == writer_spaces = <<>> /\ gbxml = None
ServiceIdle == stored = None /\ reply = None /\ utc_now = 0
ScopeIdle == change_requests = <<>> /\ scope_items = <<>> /\ answers = <<>>

\* Zone(id, space_ids) with the default sizing factors 1.15 and 1.25
NewZone(i, space_ids) ==
    [ id |-> ZoneId(i), space_ids |-> space_ids,
      cooling_sizing_factor |-> 115, heating_sizing_factor |-> 125 ]

\* System(id, zone_ids, system_type, fan_efficiency, fan_motor_efficiency)
NewSystem(i, zone_ids, system_type, efficiency_pair) ==
    [ id |-> SystemId(i), system_type |-> system_type, zone_ids |-> zone_ids,
      cooling_supply_air_temp |-> 1300,
      fan_efficiency |-> efficiency_pair[1], fan_pressure_rise |-> 1000,
      fan_motor_efficiency |-> efficiency_pair[2],
      cooling_sizing_factor |-> 110, heating_sizing_factor |-> 110 ]

\* Plant(id, system_ids, chiller_cop, boiler_efficiency, pump_efficiency)
NewPlant(i, system_ids, efficiencies) ==
    [ id |-> PlantId(i), system_ids |-> system_ids,
      chiller_cop |-> efficiencies[1], boiler_efficiency |-> efficiencies[2],
      pump_efficiency |-> efficiencies[3],
      chw_pump_head |-> 150, hw_pump_head |-> 100, cw_pump_head |-> 200,
      cooling_sizing_factor |-> 110, heating_sizing_factor |-> 110 ]

\* (chiller_cop, boiler_efficiency, pump_efficiency): the defaults, and all zero
PlantEfficiencies == { <<600, 85, 70>>, <<0, 0, 0>> }

NonEmptySubsets(S) == SUBSET S \ {{}}

\* A system serves the first k zone ids, k >= 1 (ids the building may lack).
ZoneIdPrefixes == { {ZoneId(i) : i \in 1..k} : k \in 1..MaxZones }

\* Zones are independent of each other and are rolled up in list order, so a
\* snapshot lists its zones by increasing rank of their member sets.
ZoneRank(space_ids) ==
    SumSeq([i \in 1..MaxSpaces |-> IF SpaceId(i) \in space_ids THEN 2^(i-1) ELSE 0])

\* (system_type, fan efficiencies) of an explicit system
SystemVariants == { <<"vav", <<70, 90>> >>, <<"cav", <<70, 90>> >>, <<"VAV", <<0, 0>> >> }

Init ==
    /\ \E d \in CoolingDryBulbs :
          building = [ cooling_db |-> d, spaces |-> <<>>, zones |-> <<>>,
                       systems |-> <<>>, plants |-> <<>> ]
    /\ result = NoResult
    /\ SizingIdle /\ RerunIdle /\ ExtractorIdle /\ WriterIdle /\ ServiceIdle /\ ScopeIdle

\* building.spaces.append(Space(...))
AddSpace ==
    /\ result = NoResult
    /\ Len(building.spaces) < MaxSpaces
    /\ \E k \in SpaceKinds :
          building' = [building EXCEPT !.spaces =
              Append(@, [k EXCEPT !.id = SpaceId(Len(building.spaces) + 1)])]
    /\ UNCHANGED <<result, sizingVars, rerunVars, extractorVars, writerVars,
                   serviceVars, scopeVars>>

\* building.zones.append(Zone(...))
AddZone ==
    /\ result = NoResult
    /\ Len(building.zones) < MaxZones
    /\ \E ids \in NonEmptySubsets({SpaceId(i) : i \in 1..MaxSpaces}) :
          /\ \A j \in 1..Len(building.zones) :
                 ZoneRank(building.zones[j].space_ids) < ZoneRank(ids)
          /\ building' = [building EXCEPT !.zones = Append(@, NewZone(Len(@) + 1, ids))]
    /\ UNCHANGED <<result, sizingVars, rerunVars, extractorVars, writerVars,
                   serviceVars, scopeVars>>

\* building.systems.append(System(...))
AddSystem ==
    /\ result = NoResult
    /\ building.systems = <<>>
    /\ \E ids \in ZoneIdPrefixes, v \in SystemVariants :
          building' = [building EXCEPT !.systems =
              Append(@, NewSystem(Len(@) + 1, ids, v[1], v[2]))]
    /\ UNCHANGED <<result, sizingVars, rerunVars, extractorVars, writerVars,
                   serviceVars, scopeVars>>

\* building.plants.append(Plant(...))
AddPlant ==
    /\ result = NoResult
    /\ building.plants = <<>>
    /\ \E ids \in {{SystemId(1)}}, e \in PlantEfficiencies :
          building' = [building EXCEPT !.plants = Append(@, NewPlant(Len(@) + 1, ids, e))]
    /\ UNCHANGED <<result, sizingVars, rerunVars, extractorVars, writerVars,
                   serviceVars, scopeVars>>

\* ASHRAELoadCalculator().calculate_project(project)
Calculate ==
    /\ result = NoResult
    /\ result' = CalculateProject(building)
    /\ UNCHANGED <<building, sizingVars, rerunVars, extractorVars, writerVars,
                   serviceVars, scopeVars>>

Next == AddSpace \/ AddZone \/ AddSystem \/ AddPlant \/ Calculate

Spec == Init /\ [][Next]_vars

(***************************************************************************)
(* The calculator over every kind of space: snapshots of spaces and zones, *)
(* with the default system and plant.                                      *)
(***************************************************************************)
\* building.spaces.append(Space(...)), of any kind
AddAnySpace ==
    /\ result = NoResult
    /\ Len(building.spaces) < MaxSpaces
    /\ \E k \in AllSpaceKinds :
          building' = [building EXCEPT !.spaces =
              Append(@, [k EXCEPT !.id = SpaceId(Len(building.spaces) + 1)])]
    /\ UNCHANGED <<result, sizingVars, rerunVars, extractorVars, writerVars,
                   serviceVars, scopeVars>>

AllKindsNext == AddAnySpace \/ AddZone \/ Calculate

AllKindsSpec == Init /\ [][AllKindsNext]_vars

(***************************************************************************)
(* Plant equipment sizing on its own: _calculate_plant_loads sizes chillers *)
(* from chiller_capacity alone, so the rule is driven over a range of      *)
(* capacities no small building reaches.                                   *)
(***************************************************************************)
CalculatorIdle == building = None /\ result = NoResult

\* Capacities are multiples of 25 tons, up to MaxCapacitySteps of them.
MaxCapacitySteps == 60
TonsPerStep == 25
\* 1 ton = 3517 W
WattsPerTon == 3517

\* tons of refrigeration to 1e-2 W
TonsToLoad(tons) == tons * WattsPerTon * 100

ChillerCapacities == { TonsToLoad(k * TonsPerStep) : k \in 0..MaxCapacitySteps }

SizingInit ==
    /\ chiller_capacity \in ChillerCapacities
    /\ chiller_sizing = None
    /\ boiler_capacity = 0 /\ boiler_sizing = None
    /\ CalculatorIdle /\ RerunIdle /\ ExtractorIdle /\ WriterIdle /\ ServiceIdle /\ ScopeIdle

\* _calculate_plant_loads: "Equipment sizing recommendations" for the chillers
SizeChillers ==
    /\ chiller_sizing = None
    /\ chiller_sizing' =
           [ num_chillers_recommended |-> NumChillersRecommended(chiller_capacity),
             chiller_size_each |-> ChillerSizeEach(chiller_capacity) ]
    /\ UNCHANGED <<chiller_capacity, boiler_capacity, boiler_sizing,
                   calculatorVars, rerunVars, extractorVars, writerVars,
                   serviceVars, scopeVars>>

SizingNext == SizeChillers

SizingSpec == SizingInit /\ [][SizingNext]_vars

\* Boiler capacities are multiples of 250 kW, up to MaxBoilerSteps of them,
\* and the same plus 0.01 W.
MaxBoilerSteps == 30
KilowattsPerStep == 250

\* kW to 1e-2 W
KilowattsToLoad(kw) == kw * 100000

BoilerCapacities ==
    { KilowattsToLoad(k * KilowattsPerStep) + e : k \in 0..MaxBoilerSteps, e \in {0, 1} }

EquipmentInit ==
    /\ chiller_capacity \in ChillerCapacities
    /\ chiller_sizing = None
    /\ boiler_capacity \in BoilerCapacities
    /\ boiler_sizing = None
    /\ CalculatorIdle /\ RerunIdle /\ ExtractorIdle /\ WriterIdle /\ ServiceIdle /\ ScopeIdle

\* _calculate_plant_loads: "Equipment sizing recommendations" for the boilers
SizeBoilers ==
    /\ boiler_sizing = None
    /\ boiler_sizing' =
           [ num_boilers_recommended |-> NumBoilersRecommended(boiler_capacity),
             boiler_size_each |-> BoilerSizeEach(boiler_capacity) ]
    /\ UNCHANGED <<chiller_capacity, chiller_sizing, boiler_capacity,
                   calculatorVars, rerunVars, extractorVars, writerVars,
                   serviceVars, scopeVars>>

EquipmentNext == SizeChillers \/ SizeBoilers

EquipmentSpec == EquipmentInit /\ [][EquipmentNext]_vars

(***************************************************************************)
(* Repeated runs: calculate_project is called twice on one project         *)
(* snapshot; each call constructs a fresh ProjectLoadResult.               *)
(***************************************************************************)
\* datetime.utcnow() at the calls: instants 1..MaxClock, never going back.
MaxClock == 3
Clock == 1..MaxClock

\* Sequences over S of length at most n.
SeqsUpTo(S, n) == UNION { [1..k -> S] : k \in 0..n }

\* Project snapshots: spaces only, as the service layer builds them.
Snapshots ==
    { [ cooling_db |-> d,
        spaces |-> [i \in 1..Len(ks) |-> [ks[i] EXCEPT !.id = SpaceId(i)]],
        zones |-> <<>>, systems |-> <<>>, plants |-> <<>> ] :
      d \in CoolingDryBulbs, ks \in SeqsUpTo(SpaceKinds, MaxSpaces) }

\* ProjectLoadResult(...) as calculate_project fills it: calculated_at is the
\* dataclass default datetime.utcnow(), taken when the result is constructed.
ProjectLoadResult(now, snapshot) == [calculated_at |-> now] @@ CalculateProject(snapshot)

\* datetime.isoformat(): one string per instant
IsoFormat(instant) == <<"isoformat", instant>>

\* ProjectLoadResult.to_dict()
ProjectToDict(r) ==
    [ calculated_at |-> IsoFormat(r.calculated_at),
      summary |-> [ total_floor_area_m2 |-> r.total_floor_area,
                    total_volume_m3 |-> r.total_volume,
                    num_spaces |-> r.num_spaces,
                    num_zones |-> r.num_zones,
                    num_systems |-> r.num_systems ],
      building_loads |-> [ total_cooling_w |-> r.total_cooling_load,
                           total_heating_w |-> r.total_heating_load ],
      space_results |-> r.space_results,
      zone_results |-> r.zone_results,
      system_results |-> r.system_results,
      plant_results |-> r.plant_results ]

RerunInit ==
    /\ project \in Snapshots
    /\ runs = <<>>
    /\ CalculatorIdle /\ SizingIdle /\ ExtractorIdle /\ WriterIdle /\ ServiceIdle /\ ScopeIdle

\* ASHRAELoadCalculator().calculate_project(project), once more
RunCalculation ==
    /\ Len(runs) < 2
    /\ \E now \in Clock :
          /\ \A i \in 1..Len(runs) : runs[i].calculated_at <= now
          /\ runs' = Append(runs, ProjectLoadResult(now, project))
    /\ UNCHANGED <<project, calculatorVars, sizingVars, extractorVars, writerVars,
                   serviceVars, scopeVars>>

RerunNext == RunCalculation

RerunSpec == RerunInit /\ [][RerunNext]_vars

(***************************************************************************)
(* GeometryExtractor (gem_ai/geometry_extractor.py).  An image is taken by  *)
(* the rectangles _detect_rectangles spots in it, in contour order.        *)
(* Pixels are integers; metres are in 1e-2 m, so that at the default 50    *)
(* pixels per metre a pixel is 2 units and a midpoint of two pixel edges   *)
(* is a whole unit.  List positions are 1-based (Python's i is here i+1).  *)
(***************************************************************************)
MaxRects == 3

\* ExtractionParams defaults: 50 px/m; floor height 3.0 m; thresholds 0.5 m
UnitsPerPixel == 2
FloorHeight == 300
GapThreshold == 50
OverlapThreshold == 50
\* gray.shape[0] of the images
ImageHeightPx == 600

\* Rectangles spotted in the images: a tall room, two rooms stacked on its
\* right at different gaps, a room under it, and a detached room.
SpottedRectangles ==
    { [x |-> 50,  y |-> 50,  w |-> 200, h |-> 300],
      [x |-> 260, y |-> 50,  w |-> 150, h |-> 140],
      [x |-> 270, y |-> 200, w |-> 150, h |-> 150],
      [x |-> 50,  y |-> 360, w |-> 200, h |-> 100],
      [x |-> 500, y |-> 50,  w |-> 60,  h |-> 100] }

\* uuid.uuid4().hex[:8]
UuidPool == {"1f0e2d3c", "9a8b7c6d"}

\* _rectangles_px_to_m
RectanglesPxToM(rects, img_height_px) ==
    [i \in 1..Len(rects) |->
        [ x |-> rects[i].x * UnitsPerPixel,
          y |-> (img_height_px - rects[i].y - rects[i].h) * UnitsPerPixel,
          w |-> rects[i].w * UnitsPerPixel,
          h |-> rects[i].h * UnitsPerPixel,
          original_px |-> <<rects[i].x, rects[i].y, rects[i].w, rects[i].h>> ]]

\* _find_adjacent_pairs: what one (i, j) iteration appends
AdjacentPairsOf(rectangles, i, j) ==
    LET r1 == rectangles[i]
        r2 == rectangles[j]
        y_overlap == Min2(r1.y + r1.h, r2.y + r2.h) - Max2(r1.y, r2.y)
        x_overlap == Min2(r1.x + r1.w, r2.x + r2.w) - Max2(r1.x, r2.x)
    IN (IF Abs((r1.x + r1.w) - r2.x) < GapThreshold /\ y_overlap > OverlapThreshold
        THEN << <<"H", i, j, (r1.x + r1.w + r2.x) \div 2>> >> ELSE <<>>)
       \o
       (IF Abs(r1.x - (r2.x + r2.w)) < GapThreshold /\ y_overlap > OverlapThreshold
        THEN << <<"H", i, j, (r1.x + r2.x + r2.w) \div 2>> >> ELSE <<>>)
       \o
       (IF Abs((r1.y + r1.h) - r2.y) < GapThreshold /\ x_overlap > OverlapThreshold
        THEN << <<"V", i, j, (r1.y + r1.h + r2.y) \div 2>> >> ELSE <<>>)
       \o
       (IF Abs(r1.y - (r2.y + r2.h)) < GapThreshold /\ x_overlap > OverlapThreshold
        THEN << <<"V", i, j, (r1.y + r2.y + r2.h) \div 2>> >> ELSE <<>>)

RECURSIVE AdjacentPairsFrom(_, _, _)
\* _find_adjacent_pairs: the nested loops from (i, j) on, skipping i >= j
AdjacentPairsFrom(rectangles, i, j) ==
    IF i > Len(rectangles) THEN <<>>
    ELSE IF j > Len(rectangles) THEN AdjacentPairsFrom(rectangles, i + 1, 1)
    ELSE (IF i >= j THEN <<>> ELSE AdjacentPairsOf(rectangles, i, j))
         \o AdjacentPairsFrom(rectangles, i, j + 1)

\* _find_adjacent_pairs
FindAdjacentPairs(rectangles) == AdjacentPairsFrom(rectangles, 1, 1)

\* adjustments.setdefault(i, {})[side] = shared_pos
SetAdjustment(adjustments, i, side, shared_pos) ==
    [adjustments EXCEPT ![i] = (side :> shared_pos) @@ @]

RECURSIVE Adjustments(_, _, _)
\* _eliminate_gaps: the adjustments after the pairs from position k on
Adjustments(rectangles_m, adjacent_pairs, k) ==
    IF k = 0 THEN [i \in 1..Len(rectangles_m) |-> <<>>]
    ELSE LET before == Adjustments(rectangles_m, adjacent_pairs, k - 1)
             direction == adjacent_pairs[k][1]
             i == adjacent_pairs[k][2]
             j == adjacent_pairs[k][3]
             shared_pos == adjacent_pairs[k][4]
             r1 == rectangles_m[i]
             r2 == rectangles_m[j]
         IN IF direction = "H"
            THEN IF r1.x < r2.x
                 THEN SetAdjustment(SetAdjustment(before, i, "right", shared_pos),
                                    j, "left", shared_pos)
                 ELSE SetAdjustment(SetAdjustment(before, i, "left", shared_pos),
                                    j, "right", shared_pos)
            ELSE IF r1.y < r2.y
                 THEN SetAdjustment(SetAdjustment(before, i, "top", shared_pos),
                                    j, "bottom", shared_pos)
                 ELSE SetAdjustment(SetAdjustment(before, i, "bottom", shared_pos),
                                    j, "top", shared_pos)

\* _eliminate_gaps: one clean rectangle
CleanRectangle(rect, adj) ==
    LET x1 == IF "left" \in DOMAIN adj THEN adj["left"] ELSE rect.x
        w1 == IF "left" \in DOMAIN adj THEN (rect.x + rect.w) - adj["left"] ELSE rect.w
        w2 == IF "right" \in DOMAIN adj THEN adj["right"] - x1 ELSE w1
        y1 == IF "bottom" \in DOMAIN adj THEN adj["bottom"] ELSE rect.y
        h1 == IF "bottom" \in DOMAIN adj THEN (rect.y + rect.h) - adj["bottom"] ELSE rect.h
        h2 == IF "top" \in DOMAIN adj THEN adj["top"] - y1 ELSE h1
    IN [ x |-> x1, y |-> y1, width |-> w2, height |-> h2, original_px |-> rect.original_px ]

\* _eliminate_gaps: the clean rectangles
EliminateGaps(rectangles_m, adjacent_pairs) ==
    LET adjustments == Adjustments(rectangles_m, adjacent_pairs, Len(adjacent_pairs))
    IN [i \in 1..Len(rectangles_m) |-> CleanRectangle(rectangles_m[i], adjustments[i])]

\* f"room-{uuid}" and f"Room_{i:03d}"
RoomId(uuid) == <<"room-", uuid>>
RoomName(i) == <<"Room_", i>>

\* _process_image on an image with the given spotted rectangles; uuids[i] is
\* the uuid4 drawn for room i.  The images have no ink near the exterior, so
\* _detect_openings finds no opening; the debug images are functions of the
\* image alone and are carried as the image's rectangles.
ProcessImage(rects, uuids) ==
    IF rects = <<>>
    THEN [ rooms |-> <<>>, adjacencies |-> <<>>, openings |-> <<>>,
           total_area_m2 |-> 0, total_volume_m3 |-> 0, debug_images |-> rects ]
    ELSE
    LET rects_m == RectanglesPxToM(rects, ImageHeightPx)
        adjacent_pairs == FindAdjacentPairs(rects_m)
        clean_rects == EliminateGaps(rects_m, adjacent_pairs)
        area(i) == clean_rects[i].width * clean_rects[i].height
        rooms == [i \in 1..Len(clean_rects) |->
                    [ id |-> RoomId(uuids[i]),
                      name |-> RoomName(i),
                      x |-> clean_rects[i].x,
                      y |-> clean_rects[i].y,
                      z |-> 0,
                      width |-> clean_rects[i].width,
                      depth |-> clean_rects[i].height,
                      height |-> FloorHeight,
                      area_m2 |-> area(i),
                      volume_m3 |-> area(i) * (FloorHeight \div 100),
                      original_bbox_px |-> clean_rects[i].original_px ]]
    IN [ rooms |-> rooms,
         adjacencies |-> [k \in 1..Len(adjacent_pairs) |->
                             <<rooms[adjacent_pairs[k][2]].id, rooms[adjacent_pairs[k][3]].id>>],
         openings |-> <<>>,
         total_area_m2 |-> SumSeq([i \in 1..Len(clean_rects) |-> area(i)]),
         total_volume_m3 |->
             SumSeq([i \in 1..Len(clean_rects) |-> area(i) * (FloorHeight \div 100)]),
         debug_images |-> rects ]

ExtractorInit ==
    /\ spotted = <<>>
    /\ extractions = <<>>
    /\ CalculatorIdle /\ SizingIdle /\ RerunIdle /\ WriterIdle /\ ServiceIdle /\ ScopeIdle

\* The image holds one more room.
SpotRectangle ==
    /\ extractions = <<>>
    /\ Len(spotted) < MaxRects
    /\ \E r \in SpottedRectangles :
          /\ \A i \in 1..Len(spotted) : spotted[i] # r
          /\ spotted' = Append(spotted, r)
    /\ UNCHANGED <<extractions, calculatorVars, sizingVars, rerunVars, writerVars,
                   serviceVars, scopeVars>>

\* GeometryExtractor(params).extract_from_image(image_bytes), once more
ExtractFromImage ==
    /\ Len(extractions) < 2
    /\ \E uuids \in [1..Len(spotted) -> UuidPool] :
          extractions' = Append(extractions, ProcessImage(spotted, uuids))
    /\ UNCHANGED <<spotted, calculatorVars, sizingVars, rerunVars, writerVars,
                   serviceVars, scopeVars>>

ExtractorNext == SpotRectangle \/ ExtractFromImage

ExtractorSpec == ExtractorInit /\ [][ExtractorNext]_vars

(***************************************************************************)
(* GbXMLWriter (gem_ai/gbxml_writer.py).  Lengths are in 1e-2 m, areas in  *)
(* 1e-4 m2, volumes in 1e-6 m3.  The document is taken by what a reader    *)
(* gets from it: per Space its id and the Area and Volume texts, per       *)
(* Surface its id, surfaceType, exposedToSun and AdjacentSpaceId elements. *)
(* A two-decimal text is carried as its number of hundredths.              *)
(***************************************************************************)
MaxWriterSpaces == 3

\* abs(fixed1 - fixed2) < 0.1
CoincidentTolerance == 10

\* Rooms handed to add_space: a tall room, two rooms stacked on its east side,
\* a room on its north side, and a detached room.
WriterRooms ==
    { [id |-> "room-p", name |-> "Room_001", x |-> 0,    y |-> 0,    z |-> 0,
       width |-> 412, depth |-> 600, height |-> 300],
      [id |-> "room-q", name |-> "Room_002", x |-> 412,  y |-> 0,    z |-> 0,
       width |-> 302, depth |-> 298, height |-> 300],
      [id |-> "room-r", name |-> "Room_003", x |-> 412,  y |-> 300,  z |-> 0,
       width |-> 300, depth |-> 300, height |-> 300],
      [id |-> "room-s", name |-> "Room_004", x |-> 0,    y |-> 600,  z |-> 0,
       width |-> 412, depth |-> 200, height |-> 300],
      [id |-> "room-t", name |-> "Room_005", x |-> 1000, y |-> 1000, z |-> 0,
       width |-> 200, depth |-> 200, height |-> 300] }

\* add_space: the dict appended to self.spaces
SpaceDict(room) ==
    [ id |-> room.id, name |-> room.name,
      x |-> room.x, y |-> room.y, z |-> room.z,
      width |-> room.width, depth |-> room.depth, height |-> room.height,
      area |-> room.width * room.depth,
      volume |-> room.width * room.depth * room.height ]

\* Surface(...)
Surface(sid, kind, surface_type, tilt, azimuth, points, area, exposed_to_sun) ==
    [ id |-> <<sid, kind>>, surface_type |-> surface_type,
      adjacent_space_id |-> sid, adjacent_space_id_2 |-> NoId,
      tilt |-> tilt, azimuth |-> azimuth, points |-> points, area |-> area,
      exposed_to_sun |-> exposed_to_sun ]

\* _generate_surfaces_for_space
GenerateSurfacesForSpace(space) ==
    LET x == space.x
        y == space.y
        z == space.z
        w == space.width
        d == space.depth
        h == space.height
        sid == space.id
    IN << Surface(sid, "-floor", IF z = 0 THEN "SlabOnGrade" ELSE "InteriorFloor", 180, 0,
                  << <<x, y, z>>, <<x + w, y, z>>, <<x + w, y + d, z>>, <<x, y + d, z>> >>,
                  w * d, FALSE),
          Surface(sid, "-ceiling", "Roof", 0, 0,
                  << <<x, y, z + h>>, <<x, y + d, z + h>>,
                     <<x + w, y + d, z + h>>, <<x + w, y, z + h>> >>,
                  w * d, TRUE),
          Surface(sid, "-wall-south", "ExteriorWall", 90, 180,
                  << <<x, y, z>>, <<x + w, y, z>>, <<x + w, y, z + h>>, <<x, y, z + h>> >>,
                  w * h, TRUE),
          Surface(sid, "-wall-north", "ExteriorWall", 90, 0,
                  << <<x + w, y + d, z>>, <<x, y + d, z>>,
                     <<x, y + d, z + h>>, <<x + w, y + d, z + h>> >>,
                  w * h, TRUE),
          Surface(sid, "-wall-east", "ExteriorWall", 90, 90,
                  << <<x + w, y, z>>, <<x + w, y + d, z>>,
                     <<x + w, y + d, z + h>>, <<x + w, y, z + h>> >>,
                  d * h, TRUE),
          Surface(sid, "-wall-west", "ExteriorWall", 90, 270,
                  << <<x, y + d, z>>, <<x, y, z>>, <<x, y, z + h>>, <<x, y + d, z + h>> >>,
                  d * h, TRUE) >>

RECURSIVE AllSurfaces(_)
\* _detect_shared_walls: all_surfaces before the coincidence check
AllSurfaces(spaces) ==
    IF spaces = <<>> THEN <<>>
    ELSE GenerateSurfacesForSpace(Head(spaces)) \o AllSurfaces(Tail(spaces))

\* "wall" in s.id.lower(); no room id holds the word
IsWallId(id) == id[2] \in {"-wall-south", "-wall-north", "-wall-east", "-wall-west"}

\* _detect_shared_walls: fixed1, fixed2 (chosen by the azimuth of s1)
FixedCoordinate(s1, s) ==
    IF s1.azimuth \in {0, 180}
    THEN (IF s.points # <<>> THEN s.points[1][2] ELSE 0)
    ELSE (IF s.points # <<>> THEN s.points[1][1] ELSE 0)

\* _detect_shared_walls: the inner loop's tests on (s1, s2)
AreCoincident(s1, s2) ==
    /\ IsWallId(s2.id)
    /\ s1.adjacent_space_id # s2.adjacent_space_id
    /\ Abs(s1.azimuth - s2.azimuth) = 180
    /\ Abs(FixedCoordinate(s1, s1) - FixedCoordinate(s1, s2)) < CoincidentTolerance

\* _detect_shared_walls: the assignments to s1 and s2
MarkShared(all_surfaces, i, j) ==
    [all_surfaces EXCEPT
        ![i] = [@ EXCEPT !.surface_type = "InteriorWall",
                         !.adjacent_space_id_2 = all_surfaces[j].adjacent_space_id,
                         !.exposed_to_sun = FALSE],
        ![j] = [@ EXCEPT !.surface_type = "InteriorWall",
                         !.adjacent_space_id_2 = all_surfaces[i].adjacent_space_id,
                         !.exposed_to_sun = FALSE]]

RECURSIVE SharedWallsInner(_, _, _)
\* _detect_shared_walls: for j, s2 in enumerate(all_surfaces), from j on
SharedWallsInner(all_surfaces, i, j) ==
    IF j > Len(all_surfaces) THEN all_surfaces
    ELSE IF i < j /\ AreCoincident(all_surfaces[i], all_surfaces[j])
         THEN SharedWallsInner(MarkShared(all_surfaces, i, j), i, j + 1)
         ELSE SharedWallsInner(all_surfaces, i, j + 1)

RECURSIVE SharedWallsOuter(_, _)
\* _detect_shared_walls: for i, s1 in enumerate(all_surfaces), from i on
SharedWallsOuter(all_surfaces, i) ==
    IF i > Len(all_surfaces) THEN all_surfaces
    ELSE IF ~IsWallId(all_surfaces[i].id) \/ all_surfaces[i].surface_type = "InteriorWall"
         THEN SharedWallsOuter(all_surfaces, i + 1)
         ELSE SharedWallsOuter(SharedWallsInner(all_surfaces, i, 1), i + 1)

\* _detect_shared_walls
DetectSharedWalls(spaces) == SharedWallsOuter(AllSurfaces(spaces), 1)

\* f"{v:.2f}" of a value held in 1/scale: its hundredths, to nearest
Format2(v, scale) == (v + (scale \div 100) \div 2) \div (scale \div 100)

\* float(text) of a two-decimal text, in 1/scale
ParseFloat(hundredths, scale) == hundredths * (scale \div 100)

\* generate: the Space element
SpaceElement(space) ==
    [ id |-> space.id, Name |-> space.name,
      Area |-> Format2(space.area, 10000),
      Volume |-> Format2(space.volume, 1000000) ]

\* generate: the Surface element
SurfaceElement(surf) ==
    [ id |-> surf.id, surfaceType |-> surf.surface_type,
      exposedToSun |-> IF surf.exposed_to_sun THEN "true" ELSE "false",
      AdjacentSpaceId |-> IF surf.adjacent_space_id_2 # NoId
                          THEN <<surf.adjacent_space_id, surf.adjacent_space_id_2>>
                          ELSE <<surf.adjacent_space_id>>,
      PlanarGeometry |-> surf.points ]

\* generate
Generate(spaces) ==
    LET all_surfaces == DetectSharedWalls(spaces)
    IN [ Area |-> Format2(SumSeq([i \in 1..Len(spaces) |-> spaces[i].area]), 10000),
         Space |-> [i \in 1..Len(spaces) |-> SpaceElement(spaces[i])],
         Surface |-> [k \in 1..Len(all_surfaces) |-> SurfaceElement(all_surfaces[k])] ]

WriterInit ==
    /\ writer_spaces = <<>>
    /\ gbxml = None
    /\ CalculatorIdle /\ SizingIdle /\ RerunIdle /\ ExtractorIdle
    /\ ServiceIdle /\ ScopeIdle

\* writer.add_space(...); the document made before it is of other spaces
WriterAddSpace ==
    /\ Len(writer_spaces) < MaxWriterSpaces
    /\ \E room \in WriterRooms :
          /\ \A i \in 1..Len(writer_spaces) : writer_spaces[i].id # room.id
          /\ writer_spaces' = Append(writer_spaces, SpaceDict(room))
    /\ gbxml' = None
    /\ UNCHANGED <<calculatorVars, sizingVars, rerunVars, extractorVars,
                   serviceVars, scopeVars>>

\* writer.generate()
GenerateGbxml ==
    /\ gbxml' = Generate(writer_spaces)
    /\ UNCHANGED <<writer_spaces, calculatorVars, sizingVars, rerunVars, extractorVars,
                   serviceVars, scopeVars>>

WriterNext == WriterAddSpace \/ GenerateGbxml

WriterSpec == WriterInit /\ [][WriterNext]_vars

(***************************************************************************)
(* Calculation service (backend/app/api/endpoints).  The project store     *)
(* holds one project; the handlers create it, add spaces to it, update it   *)
(* and run a calculation on it.  Each handler runs to completion: none of   *)
(* them awaits.                                                            *)
(***************************************************************************)
MaxServiceSpaces == 2
\* Requests served in one behaviour; datetime.utcnow() is the request number.
MaxServiceClock == 5

\* settings.COST_PER_SPACE, COST_PER_PROJECT_MIN, COST_PER_PROJECT_MAX
CostPerSpace == 1
CostPerProjectMin == 5
CostPerProjectMax == 100
\* The credits of the user get_current_user returns.
UserCredits == 100

UserIds == {"u1", "u2"}
\* "p1" is the id create_project gives the project; "p2" is never stored.
ProjectIds == {"p1", "p2"}
\* ProjectUpdate.name: Optional[str], so a request may carry null.
ProjectNames == {"Tower", NoId}
\* SpaceData.floor_area: any float, in m2.
FloorAreas == {0, 20}

\* get_current_user: the token's subject with the mock credits
CurrentUser(user_id) == [id |-> user_id, credits |-> UserCredits]

\* _projects_store.get(project_id)
ProjectsStoreGet(project_id) == IF project_id = "p1" THEN stored ELSE None

\* HTTPException(status_code=...) leaving a handler, or the code of its response.
Reply(request, status_code) ==
    [request |-> request, status_code |-> status_code, at |-> utc_now + 1]

\* The dict create_project stores: no "calculation_results" key, which
\* calculation_results = <<>> stands for; calculated_at = <<>> is None.
NewProject(user_id, name, t) ==
    [ id |-> "p1", user_id |-> user_id, name |-> name, status |-> "draft",
      total_floor_area |-> 0, updated_at |-> t,
      calculated_at |-> <<>>, credits_used |-> 0, spaces |-> <<>>,
      calculation_results |-> <<>> ]

\* estimate_credits
EstimateCredits(p) ==
    LET num_spaces == Len(p.spaces)
        base_cost == CostPerProjectMin
        space_cost == num_spaces * CostPerSpace
    IN  Max2(base_cost, Min2(base_cost + space_cost, CostPerProjectMax))

\* build_space_for_calculation raises: width_m = sqrt(floor_area / 1.5) is 0
\* for a floor area of 0 and floor_area_m2 / width_m divides by zero.
BuildSpaceRaises(space_data) == space_data.floor_area = 0

\* The try block up to and including calculator.calculate_project raises.
CalculationRaises(p) ==
    \E i \in 1..Len(p.spaces) : BuildSpaceRaises(p.spaces[i])

\* CalculationResponse(project_name=project["name"], ...) raises a
\* validation error: project_name is a required str.
ConversionRaises(p) == p.name = NoId

\* response.model_dump(), by the fields that identify the run
CalculationResponse(p, credits_needed, t) ==
    [ project_id |-> p.id, project_name |-> p.name, status |-> "completed",
      calculated_at |-> t, num_space_results |-> Len(p.spaces),
      credits_used |-> credits_needed ]

\* run_calculation: the project it leaves in the store and the status code
\* of its response.
RunCalculationOutcome(p, current_user, t) ==
    IF p = None
    THEN [project |-> p, status_code |-> 404]
    ELSE IF p.user_id # current_user.id
    THEN [project |-> p, status_code |-> 403]
    ELSE IF current_user.credits < EstimateCredits(p)
    THEN [project |-> p, status_code |-> 402]
    ELSE IF p.spaces = <<>>
    THEN [project |-> p, status_code |-> 400]
    ELSE IF CalculationRaises(p)
    THEN [project |-> [p EXCEPT !.status = "error"], status_code |-> 500]
    ELSE LET credits_needed == EstimateCredits(p)
             updated == [p EXCEPT !.status = "completed",
                                  !.calculated_at = <<t>>,
                                  !.credits_used = credits_needed]
         IN  IF ConversionRaises(updated)
             THEN [project |-> [updated EXCEPT !.status = "error"],
                   status_code |-> 500]
             ELSE [project |->
                       [updated EXCEPT !.calculation_results =
                           <<CalculationResponse(updated, credits_needed, t)>>],
                   status_code |-> 200]

\* get_calculation_results: the status code of the response
GetCalculationResultsCode(p, current_user) ==
    IF p = None THEN 404
    ELSE IF p.user_id # current_user.id THEN 403
    ELSE IF p.calculation_results = <<>> THEN 404
    ELSE 200

ServiceInit ==
    /\ stored = None /\ reply = None /\ utc_now = 0
    /\ CalculatorIdle /\ SizingIdle /\ RerunIdle /\ ExtractorIdle /\ WriterIdle
    /\ ScopeIdle

\* POST /projects/
CreateProject ==
    /\ utc_now < MaxServiceClock
    /\ stored = None
    /\ \E user_id \in UserIds :
          stored' = NewProject(user_id, "Tower", utc_now + 1)
    /\ reply' = Reply("create_project", 201)
    /\ utc_now' = utc_now + 1
    /\ UNCHANGED <<calculatorVars, sizingVars, rerunVars, extractorVars,
                   writerVars, scopeVars>>

\* PATCH /projects/{project_id}: the store is written before the response
\* is built, and ProjectResponse(**project) rejects a null name.
UpdateProject ==
    /\ utc_now < MaxServiceClock
    /\ \E project_id \in ProjectIds, user_id \in UserIds, name \in ProjectNames :
          LET p == ProjectsStoreGet(project_id)
          IN  IF p = None
              THEN /\ reply' = Reply("update_project", 404)
                   /\ UNCHANGED stored
              ELSE IF p.user_id # user_id
              THEN /\ reply' = Reply("update_project", 403)
                   /\ UNCHANGED stored
              ELSE /\ stored' = [p EXCEPT !.name = name,
                                          !.updated_at = utc_now + 1]
                   /\ reply' = Reply("update_project",
                                     IF name = NoId THEN 500 ELSE 200)
    /\ utc_now' = utc_now + 1
    /\ UNCHANGED <<calculatorVars, sizingVars, rerunVars, extractorVars,
                   writerVars, scopeVars>>

\* POST /projects/{project_id}/spaces
AddSpaceToProject ==
    /\ utc_now < MaxServiceClock
    /\ \E project_id \in ProjectIds, user_id \in UserIds, floor_area \in FloorAreas :
          LET p == ProjectsStoreGet(project_id)
          IN  IF p = None
              THEN /\ reply' = Reply("add_space", 404)
                   /\ UNCHANGED stored
              ELSE IF p.user_id # user_id
              THEN /\ reply' = Reply("add_space", 403)
                   /\ UNCHANGED stored
              ELSE /\ Len(p.spaces) < MaxServiceSpaces
                   /\ stored' =
                         [p EXCEPT !.spaces =
                                       Append(@, [id |-> SpaceId(Len(@) + 1),
                                                  floor_area |-> floor_area]),
                                   !.updated_at = utc_now + 1,
                                   !.total_floor_area = @ + floor_area]
                   /\ reply' = Reply("add_space", 200)
    /\ utc_now' = utc_now + 1
    /\ UNCHANGED <<calculatorVars, sizingVars, rerunVars, extractorVars,
                   writerVars, scopeVars>>

\* POST /calculations/{project_id}/run
RunCalculationEndpoint ==
    /\ utc_now < MaxServiceClock
    /\ \E project_id \in ProjectIds, user_id \in UserIds :
          LET outcome == RunCalculationOutcome(ProjectsStoreGet(project_id),
                                               CurrentUser(user_id), utc_now + 1)
          IN  /\ stored' = IF project_id = "p1" THEN outcome.project ELSE stored
              /\ reply' = Reply("run_calculation", outcome.status_code)
    /\ utc_now' = utc_now + 1
    /\ UNCHANGED <<calculatorVars, sizingVars, rerunVars, extractorVars,
                   writerVars, scopeVars>>

\* GET /calculations/{project_id}/results
GetCalculationResults ==
    /\ utc_now < MaxServiceClock
    /\ \E project_id \in ProjectIds, user_id \in UserIds :
          reply' = Reply("get_calculation_results",
                         GetCalculationResultsCode(ProjectsStoreGet(project_id),
                                                   CurrentUser(user_id)))
    /\ utc_now' = utc_now + 1
    /\ UNCHANGED <<stored, calculatorVars, sizingVars, rerunVars, extractorVars,
                   writerVars, scopeVars>>

ServiceNext ==
    \/ CreateProject
    \/ UpdateProject
    \/ AddSpaceToProject
    \/ RunCalculationEndpoint
    \/ GetCalculationResults

ServiceSpec == ServiceInit /\ [][ServiceNext]_vars

(***************************************************************************)
(* scopestack change requests (saas-portfolio/apps/scopestack/backend).     *)
(* The handlers are coroutine functions with no await in them, served by    *)
(* the one event loop uvicorn.run starts, so each runs to completion in its *)
(* own database session before the next request is taken.                   *)
(***************************************************************************)
MaxChangeRequests == 2
\* Requests answered in one behaviour.
MaxAnswers == 3

\* The project the database holds: owned by "u1", with its portal token.
ScopeProject ==
    [id |-> "sp1", user_id |-> "u1", client_portal_token |-> "tok"]
ScopeUsers == {"u1", "u2"}
PortalTokens == {"tok", "bad"}

\* generate_uuid for the i-th row of a table
ChangeRequestId(i) == <<"cr", i>>
ScopeItemId(i) == <<"item", i>>
RequestedIds == { ChangeRequestId(i) : i \in 1..MaxChangeRequests }

\* ChangeRequest(...) as create_change_request commits it; the title stands
\* for what the request asks, one title per request.
ChangeRequest(i) ==
    [ id |-> ChangeRequestId(i), project_id |-> ScopeProject.id,
      scope_item_id |-> NoId, title |-> <<"title", i>>,
      status |-> "pending", approved_by |-> NoId ]

\* ScopeItem(...) as approve_change_request builds it; its id is assigned by
\* the column default when the row is inserted.
ScopeItem(i, change_request) ==
    [ id |-> ScopeItemId(i), project_id |-> change_request.project_id,
      title |-> change_request.title, source |-> "change_request",
      status |-> "approved" ]

\* Positions of the rows a query's filter keeps.
OwnedBy(cr_id, user_id) ==
    { i \in 1..Len(change_requests) :
        /\ change_requests[i].id = cr_id
        /\ change_requests[i].project_id = ScopeProject.id
        /\ ScopeProject.user_id = user_id }
PendingOf(request_id, project_id) ==
    { i \in 1..Len(change_requests) :
        /\ change_requests[i].id = request_id
        /\ change_requests[i].project_id = project_id
        /\ change_requests[i].status = "pending" }

\* The response of a handler, or the HTTPException it raises.
Answer(request, cr_id, status_code) ==
    [request |-> request, cr_id |-> cr_id, status_code |-> status_code]

ScopeInit ==
    /\ change_requests = <<>> /\ scope_items = <<>> /\ answers = <<>>
    /\ CalculatorIdle /\ SizingIdle /\ RerunIdle /\ ExtractorIdle /\ WriterIdle
    /\ ServiceIdle

\* POST /projects/{project_id}/change-requests
CreateChangeRequest ==
    /\ Len(answers) < MaxAnswers
    /\ \E user_id \in ScopeUsers :
          LET cr_id == ChangeRequestId(Len(change_requests) + 1)
          IN  IF ScopeProject.user_id # user_id
              THEN /\ answers' = Append(answers, Answer("create", cr_id, 404))
                   /\ UNCHANGED change_requests
              ELSE /\ Len(change_requests) < MaxChangeRequests
                   /\ change_requests' =
                         Append(change_requests,
                                ChangeRequest(Len(change_requests) + 1))
                   /\ answers' = Append(answers, Answer("create", cr_id, 201))
    /\ UNCHANGED <<scope_items, calculatorVars, sizingVars, rerunVars,
                   extractorVars, writerVars, serviceVars>>

\* PATCH /change-requests/{cr_id}/approve.  scope_item.id is read before the
\* session has inserted the row, so scope_item_id is set to None.
ApproveChangeRequest ==
    /\ Len(answers) < MaxAnswers
    /\ \E cr_id \in RequestedIds, user_id \in ScopeUsers :
          LET found == OwnedBy(cr_id, user_id)
          IN  IF found = {}
              THEN /\ answers' = Append(answers, Answer("approve", cr_id, 404))
                   /\ UNCHANGED <<change_requests, scope_items>>
              ELSE LET i == CHOOSE j \in found : TRUE
                   IN  IF change_requests[i].status # "pending"
                       THEN /\ answers' =
                                  Append(answers, Answer("approve", cr_id, 400))
                            /\ UNCHANGED <<change_requests, scope_items>>
                       ELSE /\ change_requests' =
                                  [change_requests EXCEPT
                                      ![i].status = "approved",
                                      ![i].approved_by = user_id,
                                      ![i].scope_item_id = NoId]
                            /\ scope_items' =
                                  Append(scope_items,
                                         ScopeItem(Len(scope_items) + 1,
                                                   change_requests[i]))
                            /\ answers' =
                                  Append(answers, Answer("approve", cr_id, 200))
    /\ UNCHANGED <<calculatorVars, sizingVars, rerunVars, extractorVars,
                   writerVars, serviceVars>>

\* PATCH /change-requests/{cr_id}/reject
RejectChangeRequest ==
    /\ Len(answers) < MaxAnswers
    /\ \E cr_id \in RequestedIds, user_id \in ScopeUsers :
          LET found == OwnedBy(cr_id, user_id)
          IN  IF found = {}
              THEN /\ answers' = Append(answers, Answer("reject", cr_id, 404))
                   /\ UNCHANGED change_requests
              ELSE LET i == CHOOSE j \in found : TRUE
                   IN  IF change_requests[i].status # "pending"
                       THEN /\ answers' =
                                  Append(answers, Answer("reject", cr_id, 400))
                            /\ UNCHANGED change_requests
                       ELSE /\ change_requests' =
                                  [change_requests EXCEPT ![i].status = "rejected"]
                            /\ answers' =
                                  Append(answers, Answer("reject", cr_id, 200))
    /\ UNCHANGED <<scope_items, calculatorVars, sizingVars, rerunVars,
                   extractorVars, writerVars, serviceVars>>

\* POST /portal/{token}/approve/{request_id}: the client approves; no scope
\* item is created.
ClientApprove ==
    /\ Len(answers) < MaxAnswers
    /\ \E token \in PortalTokens, request_id \in RequestedIds :
          IF ScopeProject.client_portal_token # token
          THEN /\ answers' =
                     Append(answers, Answer("client_approve", request_id, 404))
               /\ UNCHANGED change_requests
          ELSE LET found == PendingOf(request_id, ScopeProject.id)
               IN  IF found = {}
                   THEN /\ answers' =
                              Append(answers,
                                     Answer("client_approve", request_id, 404))
                        /\ UNCHANGED change_requests
                   ELSE LET i == CHOOSE j \in found : TRUE
                        IN  /\ change_requests' =
                                  [change_requests EXCEPT
                                      ![i].status = "approved",
                                      ![i].approved_by = "Client"]
                            /\ answers' =
                                  Append(answers,
                                         Answer("client_approve", request_id, 200))
    /\ UNCHANGED <<scope_items, calculatorVars, sizingVars, rerunVars,
                   extractorVars, writerVars, serviceVars>>

\* POST /portal/{token}/reject/{request_id}
ClientReject ==
    /\ Len(answers) < MaxAnswers
    /\ \E token \in PortalTokens, request_id \in RequestedIds :
          IF ScopeProject.client_portal_token # token
          THEN /\ answers' =
                     Append(answers, Answer("client_reject", request_id, 404))
               /\ UNCHANGED change_requests
          ELSE LET found == PendingOf(request_id, ScopeProject.id)
               IN  IF found = {}
                   THEN /\ answers' =
                              Append(answers,
                                     Answer("client_reject", request_id, 404))
                        /\ UNCHANGED change_requests
                   ELSE LET i == CHOOSE j \in found : TRUE
                        IN  /\ change_requests' =
                                  [change_requests EXCEPT ![i].status = "rejected"]
                            /\ answers' =
                                  Append(answers,
                                         Answer("client_reject", request_id, 200))
    /\ UNCHANGED <<scope_items, calculatorVars, sizingVars, rerunVars,
                   extractorVars, writerVars, serviceVars>>

ScopeNext ==
    \/ CreateChangeRequest
    \/ ApproveChangeRequest
    \/ RejectChangeRequest
    \/ ClientApprove
    \/ ClientReject

ScopeSpec == ScopeInit /\ [][ScopeNext]_vars

(***************************************************************************)
(* Properties.                                                             *)
(***************************************************************************)
\* calculate_project returned a ProjectLoadResult.
Returned == result # NoResult /\ ~IsRaised(result)

NumSpaceResults == Len(result.space_results)
NumZoneResults == Len(result.zone_results)
NumSystemResults == Len(result.system_results)

\* The space results a zone result aggregates, by position in space_results.
IsMemberSpace(z, i) ==
    result.space_results[i].space_id \in result.zone_results[z].space_ids

\* The zone results a system result aggregates, by position in zone_results.
IsMemberZone(s, z) ==
    result.zone_results[z].zone_id \in result.system_results[s].zone_ids

\* Sum over the member spaces of zone z of a list entry of one of their profiles.
MemberSpaceSum(z, profile, field, p) ==
    SumSeq([i \in 1..NumSpaceResults |->
               IF IsMemberSpace(z, i) THEN result.space_results[i][profile][field][p] ELSE 0])

\* Sum over the member zones of system s of their hourly total cooling at p.
MemberZoneSum(s, p) ==
    SumSeq([z \in 1..NumZoneResults |->
               IF IsMemberZone(s, z)
               THEN result.zone_results[z].hourly_profile.total_cooling[p] ELSE 0])

\* Sum over the member zones of system s of their peak total cooling.
MemberZonePeakSum(s) ==
    SumSeq([z \in 1..NumZoneResults |->
               IF IsMemberZone(s, z)
               THEN result.zone_results[z].peak_summary.peak_total_cooling ELSE 0])

\* v is the maximum of the list values.
IsMaxOf(v, values) ==
    /\ \A p \in DOMAIN values : values[p] <= v
    /\ \E p \in DOMAIN values : values[p] = v

\* C1: for every explicit zone and every hour, the zone's hourly profile entry
\* (total, sensible and latent cooling, sensible heating) is the sum of its
\* member spaces' design-day profile entries at that hour.
C1_ZoneProfileIsSumOfSpaces ==
    (Returned /\ building.zones # <<>>) =>
        \A z \in 1..NumZoneResults : \A p \in Hours :
            LET profile == result.zone_results[z].hourly_profile IN
            /\ profile.total_cooling[p]
                   = MemberSpaceSum(z, "cooling_design_day_profile", "total_cooling", p)
            /\ profile.sensible_cooling[p]
                   = MemberSpaceSum(z, "cooling_design_day_profile", "sensible_cooling", p)
            /\ profile.latent_cooling[p]
                   = MemberSpaceSum(z, "cooling_design_day_profile", "latent_cooling", p)
            /\ profile.sensible_heating[p]
                   = MemberSpaceSum(z, "heating_design_day_profile", "sensible_heating", p)

\* C1 witness: an explicit zone of two spaces that both load it at some hour.
C1_Witness ==
    /\ Returned /\ building.zones # <<>>
    /\ \E z \in 1..NumZoneResults : \E p \in Hours :
          /\ Len(result.zone_results[z].space_results) = 2
          /\ \A i \in 1..NumSpaceResults :
                IsMemberSpace(z, i)
                    => result.space_results[i].cooling_design_day_profile.total_cooling[p] > 0
          /\ result.zone_results[z].hourly_profile.total_cooling[p] > 0

\* C2: for every system over explicit zones, block_cooling_total is the maximum
\* over the hours of the summed member-zone hourly totals, and is at most the
\* sum of the member zones' peak_total_cooling.
C2_BlockIsCoincidentMax ==
    (Returned /\ building.zones # <<>>) =>
        \A s \in 1..NumSystemResults :
            /\ IsMaxOf(result.system_results[s].block_cooling_total,
                       [p \in Hours |-> MemberZoneSum(s, p)])
            /\ result.system_results[s].block_cooling_total <= MemberZonePeakSum(s)

\* C2 witness: a system over two explicit zones whose block load is below the
\* sum of their peaks.
C2_Witness ==
    /\ Returned /\ building.zones # <<>>
    /\ \E s \in 1..NumSystemResults :
          /\ Len(result.system_results[s].zone_results) = 2
          /\ result.system_results[s].block_cooling_total > 0
          /\ result.system_results[s].block_cooling_total < MemberZonePeakSum(s)

\* C3: for every explicit zone, peak_total_cooling is the maximum over the
\* hours of the zone's combined hourly total cooling, and peak heating the
\* maximum of its combined hourly heating.
C3_ZonePeakIsMaxOfCombinedProfile ==
    (Returned /\ building.zones # <<>>) =>
        \A z \in 1..NumZoneResults :
            LET zr == result.zone_results[z] IN
            /\ IsMaxOf(zr.peak_summary.peak_total_cooling, zr.hourly_profile.total_cooling)
            /\ IsMaxOf(zr.peak_summary.peak_sensible_heating, zr.hourly_profile.sensible_heating)

\* C4: the project's total_cooling_load is the sum of the space results'
\* peak_total_cooling and total_heating_load the sum of their
\* peak_sensible_heating, whatever zones, systems and plants are defined.
C4_ProjectTotalIsSumOfSpacePeaks ==
    Returned =>
        /\ result.total_cooling_load
               = SumSeq([i \in 1..NumSpaceResults |->
                            result.space_results[i].peak_summary.peak_total_cooling])
        /\ result.total_heating_load
               = SumSeq([i \in 1..NumSpaceResults |->
                            result.space_results[i].peak_summary.peak_sensible_heating])

\* C4 witness: two spaces under explicit zones and an explicit system whose
\* block load differs from the project total.
C4_Witness ==
    /\ Returned /\ NumSpaceResults = 2
    /\ building.zones # <<>> /\ building.systems # <<>>
    /\ result.total_cooling_load > 0
    /\ result.total_cooling_load # result.system_results[1].block_cooling_total

C6_SyntheticZonePerSpace ==
    (Returned /\ building.zones = <<>> /\ Len(building.spaces) >= 1) =>
        /\ NumZoneResults = Len(building.spaces)
        /\ \A i \in 1..NumSpaceResults :
              LET sr == result.space_results[i]
                  zr == result.zone_results[i]
              IN /\ zr.space_ids = {sr.space_id}
                 /\ zr.space_results = << sr.space_id >>
                 /\ zr.peak_summary = sr.peak_summary
                 /\ zr.sized_cooling_load = sr.peak_summary.peak_total_cooling * 115
                 /\ zr.sized_heating_load = sr.peak_summary.peak_sensible_heating * 125

\* C6 witness: a result for two spaces and no zones.
C6_Witness ==
    /\ Returned /\ building.zones = <<>> /\ Len(building.spaces) = 2
    /\ \A z \in 1..NumZoneResults : result.zone_results[z].sized_cooling_load > 0

\* C7: calculate_project on a building with zero spaces fails with EmptyModel.
C7_EmptyModelFails ==
    (result # NoResult /\ building.spaces = <<>>) => result = Raised("EmptyModel")

\* Some zone names a space, some system a zone or some plant a system that the
\* building does not hold.
HasUnknownReference ==
    \/ \E z \in 1..Len(building.zones) :
          \E id \in building.zones[z].space_ids :
              \A i \in 1..Len(building.spaces) : building.spaces[i].id # id
    \/ \E s \in 1..Len(building.systems) :
          \E id \in building.systems[s].zone_ids :
              \A z \in 1..Len(building.zones) : building.zones[z].id # id
    \/ \E q \in 1..Len(building.plants) :
          \E id \in building.plants[q].system_ids :
              \A s \in 1..Len(building.systems) : building.systems[s].id # id

\* C8: calculate_project on a building with an unknown space, zone or system
\* reference fails with InvalidInput and returns no result.
C8_UnknownReferenceFails ==
    (result # NoResult /\ HasUnknownReference) => result = Raised("InvalidInput")

\* Every efficiency of the building's systems and plants is zero.
AllEfficienciesZero ==
    /\ building.systems # <<>> /\ building.plants # <<>>
    /\ \A s \in 1..Len(building.systems) :
          building.systems[s].fan_efficiency = 0 /\ building.systems[s].fan_motor_efficiency = 0
    /\ \A q \in 1..Len(building.plants) :
          /\ building.plants[q].chiller_cop = 0
          /\ building.plants[q].boiler_efficiency = 0
          /\ building.plants[q].pump_efficiency = 0

\* C9: with all efficiencies zero the calculation completes and supply fan
\* power, the three pump powers and the chiller energy input are 0.
C9_ZeroEfficienciesGiveZero ==
    (result # NoResult /\ AllEfficienciesZero) =>
        /\ Returned
        /\ \A s \in 1..NumSystemResults : result.system_results[s].supply_fan_power = 0
        /\ \A q \in 1..Len(result.plant_results) :
              /\ result.plant_results[q].chw_pump_power = 0
              /\ result.plant_results[q].hw_pump_power = 0
              /\ result.plant_results[q].cw_pump_power = 0
              /\ result.plant_results[q].chiller_energy_input = 0

\* C10: for every system result with total outdoor airflow >= total supply
\* airflow, mixed_air_temp is the outdoor design temperature, i.e. the dry bulb
\* of the project's cooling design day.
C10_MixedAirIsOutdoorDesignTemp ==
    Returned =>
        \A s \in 1..NumSystemResults :
            LET sr == result.system_results[s] IN
            sr.total_outdoor_airflow >= sr.total_supply_airflow
                => sr.mixed_air_temp = building.cooling_db

\* Supply temperatures a CalculationSettings may carry (centi-degC): the default
\* 13 C, and three within 1 C of the 24 C room temperature.
SupplyTemps == {CoolingSupplyAirTemp, 2350, 2400, 2450}

\* |room - supply| clamped to at least 1 degC (centi-degC).
ClampedDeltaT(supply_temp, room_temp) ==
    IF Abs(room_temp - supply_temp) < 100 THEN 100 ELSE Abs(room_temp - supply_temp)

\* Q / (coefficient x dT) in 1e-5 m3/s, Q in 1e-2 W, dT in centi-degC and the
\* coefficient (cp_air, or rho_air x cp_air) in J/(m3 K) or J/(kg K).
AirflowFor(load, coefficient, delta_t) ==
    (load * 1000) \div ((coefficient * delta_t) \div 100)

\* a and b agree to 0.2 % and two units of the last place.
Agree(a, b) == Abs(a - b) * 500 <= b + 1000

\* C11 as stated: every space's supply_airflow_cooling is
\* peak_sensible_cooling / (1006 x |24 - 13|).
C11_SupplyAirflowIsLoadOverCpDeltaT ==
    Returned =>
        \A i \in 1..NumSpaceResults :
            LET sr == result.space_results[i] IN
            Agree(sr.supply_airflow_cooling,
                  AirflowFor(sr.peak_summary.peak_sensible_cooling, 1006, 1100))

\* C11, amended: every space's supply_airflow_cooling is peak_sensible_cooling /
\* (rho_air x cp_air x |T_room - T_supply|) with rho_air = 1.2, cp_air = 1006 and
\* |dT| clamped to at least 1; with the default 24 C and 13 C it is
\* peak_sensible_cooling / (1.2 x 1006 x 11).
C11_SupplyAirflowIsLoadOverRhoCpDeltaT ==
    Returned =>
        \A i \in 1..NumSpaceResults :
            LET sr == result.space_results[i]
                load == sr.peak_summary.peak_sensible_cooling
            IN /\ Agree(sr.supply_airflow_cooling, AirflowFor(load, 1207, 1100))
               /\ \A supply_temp \in SupplyTemps :
                     Agree(CalculateSupplyAirflow(load, supply_temp, IndoorCoolingTemp),
                           AirflowFor(load, 1207,
                                      ClampedDeltaT(supply_temp, IndoorCoolingTemp)))
               /\ CalculateSupplyAirflow(load, 2350, IndoorCoolingTemp)
                     = CalculateSupplyAirflow(load, 2300, IndoorCoolingTemp)

\* C11 witness: a space with a positive sensible peak and supply airflow.
C11_Witness ==
    /\ Returned
    /\ \E i \in 1..NumSpaceResults :
          /\ result.space_results[i].peak_summary.peak_sensible_cooling > 10000
          /\ result.space_results[i].supply_airflow_cooling > 0

\* C12 as stated: for every system result, reheat_coil_load is
\* 0.2 x block_cooling_sensible when the system type is "vav" and 0 for every
\* other system type.
C12_ReheatOnlyForVavTag ==
    Returned =>
        \A s \in 1..NumSystemResults :
            LET sr == result.system_results[s] IN
            IF sr.system_type = "vav"
            THEN sr.reheat_coil_load = (sr.block_cooling_sensible * 2) \div 10
            ELSE sr.reheat_coil_load = 0

\* C12, amended: for every system result, reheat_coil_load is
\* 0.2 x block_cooling_sensible when the system type, compared without regard to
\* letter case, is "vav", and 0 for every other system type.
C12_ReheatOnlyForVav ==
    Returned =>
        \A s \in 1..NumSystemResults :
            LET sr == result.system_results[s] IN
            IF sr.system_type \in {"vav", "VAV"}
            THEN sr.reheat_coil_load = (sr.block_cooling_sensible * 2) \div 10
            ELSE sr.reheat_coil_load = 0

\* C12 witness: a "cav" system with a positive sensible block load and no reheat.
C12_Witness ==
    /\ Returned
    /\ \E s \in 1..NumSystemResults :
          /\ result.system_results[s].system_type = "cav"
          /\ result.system_results[s].block_cooling_sensible > 0
          /\ result.system_results[s].reheat_coil_load = 0

\* n is the least count of units of the given size (tons) covering the capacity.
IsCeilingOf(n, capacity, unit_tons) ==
    /\ n * TonsToLoad(unit_tons) >= capacity
    /\ (n - 1) * TonsToLoad(unit_tons) < capacity

\* C13: num_chillers_recommended is ceil(capacity / 500 tons) above 500 tons and
\* max(1, ceil(capacity / 200 tons)) otherwise, chiller_size_each is capacity /
\* num_chillers_recommended, and 600 tons give 2 chillers of 300 tons each.
C13_ChillerSizingRule ==
    chiller_sizing # None =>
        LET num == chiller_sizing.num_chillers_recommended IN
        /\ chiller_capacity > TonsToLoad(500) => IsCeilingOf(num, chiller_capacity, 500)
        /\ (chiller_capacity <= TonsToLoad(500) /\ chiller_capacity > 0)
               => IsCeilingOf(num, chiller_capacity, 200)
        /\ chiller_capacity = 0 => num = 1
        /\ num >= 1
        /\ chiller_sizing.chiller_size_each * num <= chiller_capacity
        /\ chiller_sizing.chiller_size_each * num > chiller_capacity - num
        /\ chiller_capacity = TonsToLoad(600)
               => num = 2 /\ chiller_sizing.chiller_size_each = TonsToLoad(300)

\* C13 witness: a 600-ton plant sized as two chillers.
C13_Witness ==
    /\ chiller_sizing # None
    /\ chiller_capacity = TonsToLoad(600)
    /\ chiller_sizing.num_chillers_recommended = 2

\* C14: two runs of calculate_project on the same project snapshot give
\* results, and dictionary forms, identical in every field.
C14_RunsAreIdentical ==
    Len(runs) = 2 =>
        /\ runs[1] = runs[2]
        /\ ProjectToDict(runs[1]) = ProjectToDict(runs[2])

\* C20: for every system result whose member zones' unsized peak_total_cooling
\* values have a positive sum, cooling_diversity_factor (in 1/1000) is
\* block_cooling_total divided by that sum, and is at most 1.
C20_DiversityIsBlockOverZonePeaks ==
    Returned =>
        \A s \in 1..NumSystemResults :
            LET sr == result.system_results[s] IN
            MemberZonePeakSum(s) > 0 =>
                /\ Abs(sr.cooling_diversity_factor
                         - (sr.block_cooling_total * 1000) \div MemberZonePeakSum(s)) <= 2
                /\ sr.cooling_diversity_factor <= 1000

\* The adjacent pairs _find_adjacent_pairs reports for the image.
SpottedPairs == FindAdjacentPairs(RectanglesPxToM(spotted, ImageHeightPx))

\* C15: for every pair reported adjacent by the horizontal rule, after gap
\* elimination the right edge of one room is the left edge of the other, and
\* for every pair reported by the vertical rule the top edge of one is the
\* bottom edge of the other.
C15_AdjacentRoomsShareAnEdge ==
    \A e \in 1..Len(extractions) : \A k \in 1..Len(SpottedPairs) :
        LET r1 == extractions[e].rooms[SpottedPairs[k][2]]
            r2 == extractions[e].rooms[SpottedPairs[k][3]]
        IN IF SpottedPairs[k][1] = "H"
           THEN r1.x + r1.width = r2.x \/ r2.x + r2.width = r1.x
           ELSE r1.y + r1.depth = r2.y \/ r2.y + r2.depth = r1.y

\* The orderings of a list.
Orderings(list) ==
    { [k \in 1..Len(list) |-> list[f[k]]] :
        f \in { g \in [1..Len(list) -> 1..Len(list)] :
                  \A a, b \in 1..Len(list) : a # b => g[a] # g[b] } }

\* C16: _eliminate_gaps returns the same rectangles for every ordering of the
\* adjacency list, with positive widths and heights.
C16_GapEliminationIsOrderIndependent ==
    extractions # <<>> =>
        LET rects_m == RectanglesPxToM(spotted, ImageHeightPx) IN
        \A pairs \in Orderings(SpottedPairs) :
            /\ EliminateGaps(rects_m, pairs) = EliminateGaps(rects_m, SpottedPairs)
            /\ \A i \in 1..Len(rects_m) :
                  /\ EliminateGaps(rects_m, pairs)[i].width > 0
                  /\ EliminateGaps(rects_m, pairs)[i].height > 0

\* C17: two extractions of the same image with the same parameters return
\* identical rooms (every field), openings and adjacencies.
C17_ExtractionsAreIdentical ==
    Len(extractions) = 2 =>
        /\ extractions[1].rooms = extractions[2].rooms
        /\ extractions[1].openings = extractions[2].openings
        /\ extractions[1].adjacencies = extractions[2].adjacencies

\* The surfaces _detect_shared_walls returns for the writer's spaces.
SharedWalls == DetectSharedWalls(writer_spaces)

\* The fixed coordinate of a wall: y for north and south walls, x for east
\* and west walls.
WallFixed(s) == FixedCoordinate(s, s)

\* C18: after _detect_shared_walls, every two walls of different spaces whose
\* azimuths differ by 180 and whose fixed coordinates are within 0.1 m are
\* both InteriorWall, each has the other's space as second adjacent space,
\* and neither is exposed to sun, whatever the order the spaces were added in.
C18_SharedWallsAreInterior ==
    gbxml # None =>
        \A i, j \in 1..Len(SharedWalls) :
            LET s1 == SharedWalls[i]
                s2 == SharedWalls[j]
            IN ( /\ IsWallId(s1.id) /\ IsWallId(s2.id)
                 /\ s1.adjacent_space_id # s2.adjacent_space_id
                 /\ Abs(s1.azimuth - s2.azimuth) = 180
                 /\ Abs(WallFixed(s1) - WallFixed(s2)) < CoincidentTolerance )
               => /\ s1.surface_type = "InteriorWall"
                  /\ s2.surface_type = "InteriorWall"
                  /\ s1.adjacent_space_id_2 = s2.adjacent_space_id
                  /\ s2.adjacent_space_id_2 = s1.adjacent_space_id
                  /\ ~s1.exposed_to_sun
                  /\ ~s2.exposed_to_sun

\* The InteriorWall surfaces of a document, each with the spaces it joins.
InteriorWallPairsRead(document) ==
    { <<document.Surface[k].id, document.Surface[k].AdjacentSpaceId>> :
        k \in { n \in 1..Len(document.Surface) :
                  document.Surface[n].surfaceType = "InteriorWall" } }

\* The InteriorWall surfaces of the writer, each with the spaces it joins.
InteriorWallPairsWritten ==
    { <<SharedWalls[k].id,
        <<SharedWalls[k].adjacent_space_id, SharedWalls[k].adjacent_space_id_2>> >> :
        k \in { n \in 1..Len(SharedWalls) : SharedWalls[n].surface_type = "InteriorWall" } }

\* C19: the emitted document, read back, has as many spaces as the writer,
\* each with Area = width x depth and Volume = width x depth x height within
\* 1e-6 (here: to the unit, the values being whole 1e-4 m2 and 1e-6 m3), and
\* the same InteriorWall pairs.
C19_DocumentRoundTrip ==
    gbxml # None =>
        /\ Len(gbxml.Space) = Len(writer_spaces)
        /\ \A i \in 1..Len(writer_spaces) :
              /\ ParseFloat(gbxml.Space[i].Area, 10000)
                    = writer_spaces[i].width * writer_spaces[i].depth
              /\ ParseFloat(gbxml.Space[i].Volume, 1000000)
                    = writer_spaces[i].width * writer_spaces[i].depth
                        * writer_spaces[i].height
        /\ InteriorWallPairsRead(gbxml) = InteriorWallPairsWritten

\* The space of the building a space result is of.
SpaceOf(i) == building.spaces[i]

\* C21: the component breakdown of every space result is the one of the peak
\* cooling hour: it is what _calculate_hourly_loads gives at that hour, its
\* sensible and latent parts add up to peak_total_cooling, and its latent
\* parts add up to peak_latent_cooling.
C21_ComponentsAreThoseOfThePeakHour ==
    Returned =>
        \A i \in 1..NumSpaceResults :
            LET sr == result.space_results[i]
                p == sr.peak_summary.peak_cooling_hour + 1
            IN /\ IsMaxOf(sr.cooling_design_day_profile.total_cooling[p],
                          sr.cooling_design_day_profile.total_cooling)
               /\ sr.components =
                     CalculateHourlyLoads(SpaceOf(i),
                         GetDesignDayTemp(building.cooling_db, DailyRange, p), p)
               /\ SumSeq(MapSeq(sr.components,
                                LAMBDA c : c.sensible_cooling + c.latent_cooling))
                     = sr.peak_summary.peak_total_cooling
               /\ SumSeq(MapSeq(sr.components, LAMBDA c : c.latent_cooling))
                     = sr.peak_summary.peak_latent_cooling

\* A returned result with a space whose peak is not at noon and has a latent part.
C21_Witness ==
    /\ Returned
    /\ \E i \in 1..NumSpaceResults :
          /\ result.space_results[i].peak_summary.peak_cooling_hour # 12
          /\ result.space_results[i].peak_summary.peak_latent_cooling > 0
          /\ result.space_results[i].peak_summary.peak_total_cooling
                > result.space_results[i].peak_summary.peak_latent_cooling

\* The component map of space i at hour position p of the cooling design day.
HourlyComponents(i, p) ==
    CalculateHourlyLoads(SpaceOf(i),
                         GetDesignDayTemp(building.cooling_db, DailyRange, p), p)

\* C22: in cooling mode, at every hour, every component placed in the
\* component map has sensible_cooling >= 0 and latent_cooling >= 0.
C22_ComponentsAreNonNegative ==
    Returned =>
        \A i \in 1..Len(building.spaces) : \A p \in Hours :
            \A k \in 1..Len(HourlyComponents(i, p)) :
                /\ HourlyComponents(i, p)[k].sensible_cooling >= 0
                /\ HourlyComponents(i, p)[k].latent_cooling >= 0

\* The keys of a component map, in insertion order.
Keys(components) == [k \in 1..Len(components) |-> components[k].key]

\* C23: for every space the component map has exactly the eight keys
\* envelope_conduction, window_solar, window_conduction, people, lighting,
\* equipment, infiltration, ventilation, in that order.
C23_ComponentMapHasEightKeys ==
    Returned =>
        \A i \in 1..NumSpaceResults :
            Keys(result.space_results[i].components)
                = << "envelope_conduction", "window_solar", "window_conduction", "people",
                     "lighting", "equipment", "infiltration", "ventilation" >>

\* The sum of the spaces' total cooling at hour position p.
SpacesTotalCooling(p) ==
    SumSeq([i \in 1..NumSpaceResults |->
               result.space_results[i].cooling_design_day_profile.total_cooling[p]])

\* C24: with no explicit zones and no explicit systems, the default system's
\* block_cooling_total is the maximum over the hours of the sum of the spaces'
\* total cooling, hence positive when some space has a positive cooling load.
C24_DefaultSystemBlockLoad ==
    (Returned /\ building.zones = <<>> /\ building.systems = <<>>
        /\ building.spaces # <<>>) =>
        /\ NumSystemResults = 1
        /\ IsMaxOf(result.system_results[1].block_cooling_total,
                   [p \in Hours |-> SpacesTotalCooling(p)])
        /\ (\E i \in 1..NumSpaceResults :
               result.space_results[i].peak_summary.peak_total_cooling > 0)
             => result.system_results[1].block_cooling_total > 0

\* The number of results of a list whose rolled-up members include the id.
NumHolding(results, members, id) ==
    Cardinality({ k \in 1..Len(results) :
                    \E m \in 1..Len(results[k][members]) : results[k][members][m] = id })

\* C25: after calculate_project every space result is rolled up in exactly one
\* zone result, every zone result in exactly one system result and every
\* system result in exactly one plant result.
C25_RollUpsPartition ==
    Returned =>
        /\ \A i \in 1..NumSpaceResults :
              NumHolding(result.zone_results, "space_results",
                         result.space_results[i].space_id) = 1
        /\ \A z \in 1..NumZoneResults :
              NumHolding(result.system_results, "zone_results",
                         result.zone_results[z].zone_id) = 1
        /\ \A k \in 1..NumSystemResults :
              NumHolding(result.plant_results, "system_results",
                         result.system_results[k].system_id) = 1

\* The zone results partition the space results.
ZonesPartitionSpaces ==
    \A i \in 1..NumSpaceResults :
        NumHolding(result.zone_results, "space_results",
                   result.space_results[i].space_id) = 1

\* C26: the project's total_floor_area is the sum of floor_area x multiplier
\* over the spaces, and it is the sum of the zone results' total_floor_area
\* whenever the zones partition the spaces.
C26_MultiplierAppliedConsistently ==
    Returned =>
        /\ result.total_floor_area
              = SumSeq([i \in 1..Len(building.spaces) |->
                           building.spaces[i].floor_area * building.spaces[i].multiplier])
        /\ ZonesPartitionSpaces
              => result.total_floor_area
                    = SumSeq([z \in 1..NumZoneResults |->
                                 result.zone_results[z].total_floor_area])

\* C27: in every project result num_spaces, num_zones and num_systems are the
\* lengths of space_results, zone_results and system_results.
C27_CountsMatchResultLists ==
    Returned =>
        /\ result.num_spaces = NumSpaceResults
        /\ result.num_zones = NumZoneResults
        /\ result.num_systems = NumSystemResults

\* C28: every plant is recommended at least one chiller and one boiler, the
\* size of each times their number is the sized capacity (to the rounding of
\* the division), no chiller is above 500 tons and no boiler above 3000 kW.
C28_EquipmentWithinLimits ==
    /\ chiller_sizing # None =>
          LET num == chiller_sizing.num_chillers_recommended
              each == chiller_sizing.chiller_size_each
          IN /\ num >= 1
             /\ each * num <= chiller_capacity
             /\ each * num > chiller_capacity - num
             /\ each <= TonsToLoad(500)
    /\ boiler_sizing # None =>
          LET num == boiler_sizing.num_boilers_recommended
              each == boiler_sizing.boiler_size_each
          IN /\ num >= 1
             /\ each * num <= boiler_capacity
             /\ each * num > boiler_capacity - num
             /\ each <= KilowattsToLoad(3000)

\* C28 witness: a plant above both limits, sized with several chillers and
\* several boilers.
C28_Witness ==
    /\ chiller_sizing # None /\ boiler_sizing # None
    /\ chiller_capacity > TonsToLoad(500) /\ boiler_capacity > KilowattsToLoad(3000)
    /\ chiller_sizing.num_chillers_recommended >= 2
    /\ boiler_sizing.num_boilers_recommended >= 2

\* A run_calculation request was just answered with an error.
RunFailed ==
    /\ utc_now' = utc_now + 1
    /\ reply'.request = "run_calculation"
    /\ reply'.status_code # 200

\* The step leaves the stored result, its time and its cost as they were.
StoresNothing ==
    IF stored = None
    THEN stored' = None
    ELSE /\ stored'.calculation_results = stored.calculation_results
         /\ stored'.calculated_at = stored.calculated_at
         /\ stored'.credits_used = stored.credits_used

\* A project marked "completed" holds a stored result.
CompletedHasResults ==
    (stored # None /\ stored.status = "completed")
        => stored.calculation_results # <<>>

\* C29: a run_calculation request that fails (project not found, not the
\* owner, insufficient credits, no spaces, an exception during the
\* calculation or the result conversion) leaves calculation_results,
\* calculated_at and credits_used of the project unchanged, and between
\* requests a project whose status is "completed" has calculation_results.
C29_FailedRunStoresNothing ==
    /\ []CompletedHasResults
    /\ [][RunFailed => StoresNothing]_vars

\* C29, the part the service keeps: whatever requests were served, status
\* "completed" comes with a stored result.
C29_CompletedMeansStored == CompletedHasResults

\* A project that was completed once and then failed a run in the result
\* conversion: status "error", the old result, a newer calculated_at.
C29_Witness ==
    /\ stored # None /\ stored.status = "error"
    /\ stored.calculation_results # <<>>
    /\ stored.calculated_at # <<stored.calculation_results[1].calculated_at>>

\* The scope items made for a change request: those created from a change
\* request that carry its project and title.
ItemsOf(change_request) ==
    { k \in 1..Len(scope_items) :
        /\ scope_items[k].source = "change_request"
        /\ scope_items[k].project_id = change_request.project_id
        /\ scope_items[k].title = change_request.title }

\* At most one scope item per change request, there exactly when the
\* request is approved, and then with status APPROVED.
ScopeItemIffApproved ==
    \A i \in 1..Len(change_requests) :
        LET items == ItemsOf(change_requests[i])
        IN  /\ Cardinality(items) <= 1
            /\ (items # {}) <=> (change_requests[i].status = "approved")
            /\ \A k \in items : scope_items[k].status = "approved"

\* A step changes a request's status only from PENDING, to APPROVED or
\* REJECTED.
StatusMovesOnlyFromPending ==
    \A i \in 1..Len(change_requests) :
        change_requests'[i].status # change_requests[i].status
            => /\ change_requests[i].status = "pending"
               /\ change_requests'[i].status \in {"approved", "rejected"}

\* The request just answered was an approve or reject of a request that
\* was not pending.
DecidedAgain ==
    /\ Len(answers') = Len(answers) + 1
    /\ LET a == answers'[Len(answers')]
       IN  /\ a.request \in {"approve", "reject", "client_approve", "client_reject"}
           /\ \E i \in 1..Len(change_requests) :
                 /\ change_requests[i].id = a.cr_id
                 /\ change_requests[i].status # "pending"

RefusedUnchanged ==
    /\ answers'[Len(answers')].status_code >= 400
    /\ UNCHANGED <<change_requests, scope_items>>

\* C30: a change request's status only moves PENDING -> APPROVED or
\* PENDING -> REJECTED, approve or reject of a request that is not pending
\* is answered with an error and changes nothing, and whatever the order of
\* the requests each change request has at most one scope item, which
\* exists (source CHANGE_REQUEST, status APPROVED) exactly when the change
\* request is APPROVED.
C30_OneScopeItemIffApproved ==
    /\ []ScopeItemIffApproved
    /\ [][StatusMovesOnlyFromPending]_vars
    /\ [][DecidedAgain => RefusedUnchanged]_vars

\* C30, the parts every handler keeps: the status moves only out of
\* PENDING, and a decided request refuses to be decided again.
C30_DecisionsAreFinal ==
    /\ [][StatusMovesOnlyFromPending]_vars
    /\ [][DecidedAgain => RefusedUnchanged]_vars

\* A request approved by its owner, then refused a second decision.
C30_Witness ==
    /\ Len(answers) >= 3
    /\ answers[2] = Answer("approve", ChangeRequestId(1), 200)
    /\ answers[3].cr_id = ChangeRequestId(1) /\ answers[3].status_code = 400
    /\ Len(scope_items) = 1

====
